---- MODULE Spec2Model ----
(***************************************************************************)
(* A model of the dedup / throttle / scheduling core of the social-media   *)
(* agent: ConversationMemory (src/src/services/conversation_memory.py),    *)
(* MentionController.process_mentions, MessageController.process_dms,      *)
(* PostController.post_creation and MainController.schedule_posts / run.   *)
(* Browser automation, the generation API and the LLM agents are inputs:   *)
(* every result they can hand back is drawn nondeterministically.          *)
(***************************************************************************)
EXTENDS Integers, Sequences, FiniteSets, TLC

\* ------------------------------------------------------------------ bounds

\* Longest mention feed one get_mentions() call returns in the model.
MaxFeed == 2
\* Most process restarts (new ConversationMemory instances) explored.
MaxRestarts == 1
\* Most mention records kept per handle before the model stops appending.
MaxMentions == 2
\* Most message cells one DM thread shows.
MaxCells == 2
\* Most DM records kept per handle before the model stops appending.
MaxDms == 2
\* Most clock advances explored.
MaxTicks == 3

Handles == {"@alice", "@bob"}
TweetIds == {"t1", "t2"}
Links == {"l1", "l2"}

\* The author of each tweet of the model's universe.
AuthorOf(t) == IF t = "t1" THEN "@alice" ELSE "@bob"

Range(s) == {s[i] : i \in DOMAIN s}

\* All sequences over S of length 0..n.
SeqsUpTo(S, n) == UNION {[1..k -> S] : k \in 0..n}

\* ------------------------------------------------------------------ state

VARIABLES
    now,               \* datetime.now(), in seconds
    memory,            \* ConversationMemory.memory: handle -> record
    conv_files,        \* data/conversations/<handle>.json
    replied_mentions,  \* ConversationMemory.replied_mentions (RepliedTweetSet)
    replied_file,      \* data/replied_mentions.json
    mpc,               \* process_mentions: "idle" or "loop"
    mfeed,             \* process_mentions: the mentions list being iterated
    generation_result, \* process_mentions: the local variable of that name
    mev,               \* what the last process_mentions step did (history)
    lifeReplies,       \* successful replies per tweet in this process (history)
    lifeStored,        \* mention records stored per tweet in this process (history)
    lifeFailed,        \* tweets whose reply attempt failed in this process (history)
    marked,            \* ids for which add_tweet_reply returned and whose file
                       \* has been intact at every load since (history)
    lifeMarked,        \* ids for which it returned in this process (history)
    restarts,          \* number of process restarts so far
    dpc,               \* process_dms: "idle" or "loop"
    dfeed,             \* process_dms: the (handle, element) pairs still to visit
    dev,               \* what the last process_dms step did (history)
    ticks,             \* number of clock advances so far
    used_urls,         \* PostController.used_urls: link -> time last posted
    used_file,         \* data/used_urls.json
    ppc,               \* post_creation: "idle" or "loop"
    current_time,      \* post_creation: the local variable of that name
    attempt,           \* post_creation: the loop variable of that name
    used_before,       \* used_urls as the running post_creation found it (history)
    pev,               \* what the last post_creation step did (history)
    running,           \* MainController.running
    last_post_time,    \* MainController.last_post_time
    rpc,               \* MainController.run: where the coroutine stands
    rwake,             \* run: the time its current sleep ends
    rev,               \* what the last step of run did (history)
    cycle,             \* run: the steps the current cycle has finished (history)
    spc,               \* schedule_posts: where the task stands
    s_current_time,    \* schedule_posts: the local variable current_time
    swake,             \* schedule_posts: the time its current sleep ends
    sev,               \* what the last step of schedule_posts did (history)
    rop,               \* retry_operation: the call in progress or just ended
    tweets,            \* ConversationMemory.tweets
    tweet_file,        \* data/tweet_history.json
    cev,               \* what the last ConversationMemory call did (history)
    browser            \* the browser session and the sequences using it

memVars == <<memory, conv_files, replied_mentions, replied_file>>
mentionVars ==
    <<mpc, mfeed, generation_result, mev, lifeReplies, lifeStored, lifeFailed>>
histVars == <<marked, lifeMarked, restarts>>

dmVars == <<dpc, dfeed, dev>>

postVars == <<used_urls, used_file, ppc, current_time, attempt, used_before, pev>>

runVars == <<running, rpc, rwake, rev, cycle>>
schedVars == <<last_post_time, spc, s_current_time, swake, sev>>

otherVars == <<rop, tweets, tweet_file, cev, browser>>

vars == <<now, ticks, memVars, mentionVars, histVars, dmVars, postVars, runVars,
          schedVars, otherVars>>

\* ------------------------------------------------- ConversationMemory

\* dict literal of get_conversation: empty sequences, last_interaction None
\* (the empty sequence), metadata.total_interactions 0; the record has no
\* top-level "total_interactions" key.  keys are the record's top-level keys
\* other than the counter.
NewRecord ==
    [keys |-> {"dms", "mentions", "last_interaction", "metadata"},
     dms |-> <<>>, mentions |-> <<>>, last_interaction |-> <<>>,
     has_metadata |-> TRUE, total_interactions |-> 0,
     has_top_total |-> FALSE, top_total |-> 0]

\* Mutant: every call creates the record anew.
get_conversation_reset(mem, h) ==
    [x \in DOMAIN mem \cup {h} |-> IF x = h THEN NewRecord ELSE mem[x]]

\* get_conversation(handle): the memory after the call (record created on
\* first access, left alone afterwards).
get_conversation(mem, h) ==
    IF h \in DOMAIN mem THEN mem
    ELSE [x \in DOMAIN mem \cup {h} |-> IF x = h THEN NewRecord ELSE mem[x]]

\* f"{handle}.json": the name of the handle's file in data/conversations.
file_name(h) == h \o ".json"

\* The keys whose values are Python booleans in the stored messages.
JsonBoolKeys == {"from_us", "is_from_us", "has_image"}

\* json.dump of one stored message (a dict of strings and booleans): a JSON
\* object whose members carry the JSON type of each value.
json_dump_message(m) ==
    [k \in DOMAIN m |->
        IF k \in JsonBoolKeys THEN [t |-> "bool", v |-> m[k]]
        ELSE [t |-> "string", v |-> m[k]]]

\* json.dump(self.memory[handle], f, indent=2): the JSON object written.  Only
\* the keys the dict has become members; None becomes null, the isoformat
\* stamp a string, the lists arrays, the counters numbers.
json_dump(rec) ==
    LET top == rec.keys \cup
               (IF rec.has_top_total THEN {"total_interactions"} ELSE {})
    IN  [k \in top |->
            CASE k = "dms" ->
                   [t |-> "array",
                    v |-> [i \in 1..Len(rec.dms) |->
                              json_dump_message(rec.dms[i])]]
              [] k = "mentions" ->
                   [t |-> "array",
                    v |-> [i \in 1..Len(rec.mentions) |->
                              json_dump_message(rec.mentions[i])]]
              [] k = "last_interaction" ->
                   IF rec.last_interaction = <<>>
                   THEN [t |-> "null", v |-> <<>>]
                   ELSE [t |-> "string", v |-> rec.last_interaction[1]]
              [] k = "metadata" ->
                   [t |-> "object",
                    v |-> [j \in {"total_interactions"} |->
                              [t |-> "number", v |-> rec.total_interactions]]]
              [] k = "total_interactions" ->
                   [t |-> "number", v |-> rec.top_total]]

\* A file of data/conversations: its name, the JSON document json.dump wrote
\* and, as history, the record the write was given.  conv_files is indexed by
\* the handle the file was written for.
ConvFile(h, rec) ==
    [corrupt |-> FALSE, name |-> file_name(h), doc |-> json_dump(rec),
     rec |-> rec]

\* save_conversation(handle): the files after the call; nothing is written
\* when the handle is not in memory, or when the write fails (io = FALSE),
\* which the method's except swallows.
save_conversation(mem, files, h, io) ==
    IF h \in DOMAIN mem /\ io
    THEN [x \in DOMAIN files \cup {h} |->
            IF x = h THEN ConvFile(h, mem[h]) ELSE files[x]]
    ELSE files

\* add_mention(handle, mention_data): appends to the record's mentions list
\* in place, stamps last_interaction, then increments the top-level
\* conversation["total_interactions"]; a record without that key raises
\* KeyError there, which the method's except logs, so save_conversation is
\* skipped.  Returns the memory and the files after the call.
add_mention(mem, files, h, mention, t, io) ==
    LET m1 == get_conversation(mem, h)
        r1 == [m1[h] EXCEPT !.mentions = Append(@, mention),
                            !.last_interaction = <<t>>,
                            !.keys = @ \cup {"mentions", "last_interaction"}]
    IN  IF r1.has_top_total
        THEN LET r2 == [r1 EXCEPT !.top_total = @ + 1]
                 m2 == [m1 EXCEPT ![h] = r2]
             IN  [memory |-> m2, files |-> save_conversation(m2, files, h, io)]
        ELSE [memory |-> [m1 EXCEPT ![h] = r1], files |-> files]

\* Mutant: the dedup query never finds the id.
has_replied_to_tweet_never(replied, t) == FALSE

\* has_replied_to_tweet(tweet_id): membership in the replied set.
has_replied_to_tweet(replied, t) == t \in replied

\* list(self.replied_mentions): the set as a JSON array, in some fixed order.
SetToList(S) == CHOOSE s \in [1..Cardinality(S) -> S] : Range(s) = S

\* Mutant: the write misses one id of the set.
save_replied_mentions_short(replied) ==
    [exists |-> TRUE, corrupt |-> FALSE,
     ids |-> IF replied = {} THEN <<>>
             ELSE SetToList(replied \ {CHOOSE x \in replied : TRUE})]

\* save_replied_mentions(): the whole set is written.
save_replied_mentions(replied) ==
    [exists |-> TRUE, corrupt |-> FALSE, ids |-> SetToList(replied)]

\* Mutant: the set is replaced by the new id.
add_tweet_reply_replace(replied, t) ==
    [replied |-> {t}, file |-> save_replied_mentions({t})]

\* add_tweet_reply(tweet_id): the id is added to the set in memory, then the
\* whole set is written.
add_tweet_reply(replied, t) ==
    [replied |-> replied \cup {t},
     file |-> save_replied_mentions(replied \cup {t})]

\* load_replied_mentions(): set(json.load(f)); a missing or malformed file
\* gives the empty set (bare except).
load_replied_mentions(file) ==
    IF file.exists /\ ~file.corrupt THEN Range(file.ids) ELSE {}

\* load_all_conversations(): files are read in glob order; the first file
\* that fails to parse raises out of the loop, so the files after it are not
\* loaded.  The model's glob order is @alice before @bob.
GlobOrder == <<"@alice", "@bob">>

\* The position of the last "." of a name, 0 when it has none.
RECURSIVE rfind_dot(_, _)
rfind_dot(name, i) ==
    IF i = 0 THEN 0
    ELSE IF SubSeq(name, i, i) = "." THEN i
    ELSE rfind_dot(name, i - 1)

\* file.stem (pathlib): the name without its last suffix; a name whose only
\* dot is its first or its last character has no suffix.
file_stem(name) ==
    LET i == rfind_dot(name, Len(name))
    IN  IF 1 < i /\ i < Len(name) THEN SubSeq(name, 1, i - 1) ELSE name

\* json.load of one message object: a dict with the same keys and values.
json_load_message(o) == [k \in DOMAIN o |-> o[k].v]

\* Mutant: a null member is read as a missing key.
json_load_null_absent(doc) ==
    LET members == {k \in DOMAIN doc : doc[k].t # "null"}
    IN  [keys |-> members \ {"total_interactions"},
         dms |-> IF "dms" \in members
                 THEN [i \in DOMAIN doc["dms"].v |->
                          json_load_message(doc["dms"].v[i])]
                 ELSE <<>>,
         mentions |-> IF "mentions" \in members
                      THEN [i \in DOMAIN doc["mentions"].v |->
                               json_load_message(doc["mentions"].v[i])]
                      ELSE <<>>,
         last_interaction |->
             IF "last_interaction" \in members
             THEN <<doc["last_interaction"].v>>
             ELSE <<>>,
         has_metadata |-> "metadata" \in members,
         total_interactions |->
             IF "metadata" \in members
             THEN doc["metadata"].v["total_interactions"].v
             ELSE 0,
         has_top_total |-> "total_interactions" \in members,
         top_total |-> IF "total_interactions" \in members
                       THEN doc["total_interactions"].v
                       ELSE 0]

\* json.load(f): the dict read back from a JSON object.  Every member becomes
\* a key; null becomes None, arrays lists, objects dicts.
json_load(doc) ==
    [keys |-> DOMAIN doc \ {"total_interactions"},
     dms |-> IF "dms" \in DOMAIN doc
             THEN [i \in DOMAIN doc["dms"].v |->
                      json_load_message(doc["dms"].v[i])]
             ELSE <<>>,
     mentions |-> IF "mentions" \in DOMAIN doc
                  THEN [i \in DOMAIN doc["mentions"].v |->
                           json_load_message(doc["mentions"].v[i])]
                  ELSE <<>>,
     last_interaction |->
         IF "last_interaction" \in DOMAIN doc
            /\ doc["last_interaction"].t # "null"
         THEN <<doc["last_interaction"].v>>
         ELSE <<>>,
     has_metadata |-> "metadata" \in DOMAIN doc,
     total_interactions |->
         IF "metadata" \in DOMAIN doc
         THEN doc["metadata"].v["total_interactions"].v
         ELSE 0,
     has_top_total |-> "total_interactions" \in DOMAIN doc,
     top_total |-> IF "total_interactions" \in DOMAIN doc
                   THEN doc["total_interactions"].v
                   ELSE 0]

\* The loop of load_all_conversations from the i-th file on:
\* self.memory[file.stem] = json.load(f).
RECURSIVE LoadFrom(_, _, _)
LoadFrom(files, i, mem) ==
    IF i > Len(GlobOrder) THEN mem
    ELSE LET h == GlobOrder[i]
         IN  IF h \notin DOMAIN files THEN LoadFrom(files, i + 1, mem)
             ELSE IF files[h].corrupt THEN mem
             ELSE LET handle == file_stem(files[h].name)
                  IN  LoadFrom(files, i + 1,
                        [x \in DOMAIN mem \cup {handle} |->
                            IF x = handle THEN json_load(files[h].doc)
                            ELSE mem[x]])

load_all_conversations(files) == LoadFrom(files, 1, <<>>)

\* ---------------------------------------- MentionController.process_mentions

NoGen == [bound |-> FALSE, success |-> FALSE, not_linked |-> FALSE]
\* What create_api.generate can return: success, the "X account not found or
\* not linked" error, any other error.
GenResults == {[bound |-> TRUE, success |-> TRUE, not_linked |-> FALSE],
               [bound |-> TRUE, success |-> FALSE, not_linked |-> TRUE],
               [bound |-> TRUE, success |-> FALSE, not_linked |-> FALSE]}

\* Everything the outside world answers while one mention is examined: whether
\* get_tweet_id / get_handle_from_mention / get_tweet_text found something,
\* the classifier's and the safety check's answers, generate()'s result,
\* whether generate_responses / generate_engagement_response gave a text,
\* whether reply_to_tweet reported success and whether the write of
\* replied_mentions.json succeeded.  An answer the code never asks for on a
\* path is left at its default, so each path is drawn once.
NoAnswers ==
    [id_ok |-> TRUE, handle_ok |-> TRUE, text_ok |-> TRUE,
     is_request |-> TRUE, is_safe |-> TRUE,
     gen |-> [bound |-> TRUE, success |-> TRUE, not_linked |-> FALSE],
     confirmation |-> TRUE, engagement |-> TRUE, reply_ok |-> TRUE,
     io |-> TRUE]

MentionInputs ==
    {[NoAnswers EXCEPT !.id_ok = FALSE],
     [NoAnswers EXCEPT !.handle_ok = FALSE],
     [NoAnswers EXCEPT !.text_ok = FALSE],
     [NoAnswers EXCEPT !.is_request = FALSE],
     [NoAnswers EXCEPT !.confirmation = FALSE]}
    \cup {[NoAnswers EXCEPT !.gen = g] : g \in GenResults}
    \cup {[NoAnswers EXCEPT !.is_safe = s, !.reply_ok = r, !.io = w] :
              s \in BOOLEAN, r \in BOOLEAN, w \in BOOLEAN}
    \cup {[NoAnswers EXCEPT !.is_safe = FALSE, !.engagement = FALSE]}

NoMev == [kind |-> "none", tweet |-> "", examined |-> FALSE,
          was_replied |-> FALSE, reply_called |-> FALSE, reply_ok |-> FALSE,
          added |-> FALSE, stored |-> FALSE,
          is_request |-> "", is_safe |-> "", generate_called |-> FALSE]

\* What a check answered, as the event records it ("" when it was not asked).
Answer(b) == IF b THEN "true" ELSE "false"

\* Mutant: generation does not wait for the safety check's answer.
generation_allowed_any(is_request, is_safe) == is_request

\* `if is_request:` then `if is_safe:` (process_mentions), `if not
\* is_request: continue` then `if not is_safe: ... continue` (process_dms):
\* create_api.generate is reached when both answered true.
generation_allowed(is_request, is_safe) == is_request /\ is_safe

\* Mutant: the id is recorded whatever reply_to_tweet reported.
ReplySucceeded_always(reply_ok) == TRUE

\* Mutant: the test is inverted.
ReplySucceeded_not(reply_ok) == ~reply_ok

\* `if await self.reply_to_tweet(...)`: the test that guards add_tweet_reply
\* and add_mention.
ReplySucceeded(reply_ok) == reply_ok

\* The body of `for mention in mentions` for one mention: the state after the
\* iteration.  kind names the branch taken.
MentionBody(t, in, replied, file, mem, files, gen, clock) ==
    LET h == AuthorOf(t)
        base == [replied |-> replied, file |-> file, memory |-> mem,
                 files |-> files, gen |-> gen,
                 ev |-> [NoMev EXCEPT !.tweet = t]]
        \* add_tweet_reply then add_mention, after a reply that succeeded
        Sent(b, kind) ==
            LET rep2 == b.replied \cup {t}
                am == add_mention(b.memory, b.files, h,
                                  [tweet_id |-> t, is_from_us |-> FALSE], clock,
                                  in.io)
            IN  IF in.io
                THEN [b EXCEPT !.replied = rep2,
                               !.file = save_replied_mentions(rep2),
                               !.memory = am.memory, !.files = am.files,
                               !.ev.added = TRUE, !.ev.stored = TRUE,
                               !.ev.kind = kind]
                ELSE \* open(..., "w") raised: the set holds the id, the file
                     \* is not rewritten, add_mention is not reached
                     [b EXCEPT !.replied = rep2, !.ev.kind = "save_failed"]
        Reply(b, kind) ==
            LET b1 == [b EXCEPT !.ev.reply_called = TRUE,
                                !.ev.reply_ok = in.reply_ok,
                                !.ev.kind = "reply_failed"]
            IN  IF ReplySucceeded(in.reply_ok) THEN Sent(b1, kind) ELSE b1
    IN  IF ~in.id_ok \/ ~in.handle_ok
        THEN [base EXCEPT !.ev.kind = "no_id"]
        ELSE LET b0 == [base EXCEPT !.ev.examined = TRUE,
                          !.ev.was_replied = (t \in replied)]
        IN  IF has_replied_to_tweet(replied, t)
            THEN [b0 EXCEPT !.ev.kind = "already_replied"]
        ELSE IF ~in.text_ok
            THEN [b0 EXCEPT !.ev.kind = "no_text"]
        ELSE IF ~in.is_request
            THEN [b0 EXCEPT !.ev.kind = "not_request",
                            !.ev.is_request = Answer(FALSE)]
        ELSE IF generation_allowed(in.is_request, in.is_safe)
            THEN LET b1 == [b0 EXCEPT !.gen = in.gen,
                                      !.ev.is_request = Answer(in.is_request),
                                      !.ev.is_safe = Answer(in.is_safe),
                                      !.ev.generate_called = TRUE]
                 IN  IF ~in.gen.success
                     THEN [b1 EXCEPT !.ev.kind = "generation_failed"]
                     ELSE IF ~in.confirmation
                     THEN [b1 EXCEPT !.ev.kind = "no_confirmation"]
                     ELSE Reply(b1, "generated")
        \* elif generation_result.get("error") == ...: reads the local
        \* variable left by an earlier mention of this call
        ELSE LET b2 == [b0 EXCEPT !.ev.is_request = Answer(in.is_request),
                                  !.ev.is_safe = Answer(in.is_safe)]
        IN  IF ~gen.bound
            THEN [b2 EXCEPT !.ev.kind = "unbound_local"]
        ELSE IF gen.not_linked
            THEN IF in.engagement
                 THEN Reply(b2, "engagement")
                 ELSE [b2 EXCEPT !.ev.kind = "no_engagement"]
        ELSE [b2 EXCEPT !.ev.kind = "unsafe"]

\* process_mentions up to the loop: get_mentions() returned a feed.  An empty
\* feed returns at once.
MentionsStart ==
    /\ mpc = "idle"
    /\ \E feed \in SeqsUpTo(TweetIds, MaxFeed) :
          /\ mfeed' = feed
          /\ mpc' = IF feed = <<>> THEN "idle" ELSE "loop"
    /\ generation_result' = NoGen
    /\ mev' = NoMev
    /\ UNCHANGED <<memVars, lifeReplies, lifeStored, lifeFailed, histVars>>

\* process_mentions called on its own.
ProcessMentionsStart ==
    /\ MentionsStart
    /\ UNCHANGED <<otherVars, now, ticks, dmVars, postVars, runVars, schedVars>>

\* One iteration of the loop over the feed.
MentionIter ==
    /\ mpc = "loop"
    /\ mfeed # <<>>
    /\ \E in \in MentionInputs :
          LET t == Head(mfeed)
              r == MentionBody(t, in, replied_mentions, replied_file, memory,
                               conv_files, generation_result, now)
          IN  /\ AuthorOf(t) \in DOMAIN memory
                    => Len(memory[AuthorOf(t)].mentions) < MaxMentions
              /\ replied_mentions' = r.replied
              /\ replied_file' = r.file
              /\ memory' = r.memory
              /\ conv_files' = r.files
              /\ generation_result' = r.gen
              /\ mev' = r.ev
              /\ lifeReplies' =
                    IF r.ev.reply_called /\ r.ev.reply_ok
                    THEN [lifeReplies EXCEPT ![t] = @ + 1]
                    ELSE lifeReplies
              /\ lifeStored' =
                    IF r.ev.stored
                    THEN [lifeStored EXCEPT ![t] = @ + 1]
                    ELSE lifeStored
              /\ lifeFailed' =
                    IF r.ev.reply_called /\ ~r.ev.reply_ok
                    THEN lifeFailed \cup {t}
                    ELSE lifeFailed
              /\ marked' = IF r.ev.added THEN marked \cup {t} ELSE marked
              /\ lifeMarked' =
                    IF r.ev.added THEN lifeMarked \cup {t} ELSE lifeMarked
    /\ mfeed' = Tail(mfeed)
    /\ mpc' = IF Tail(mfeed) = <<>> THEN "idle" ELSE "loop"
    /\ UNCHANGED restarts

\* An iteration of process_mentions called on its own.
ProcessMention ==
    /\ MentionIter
    /\ UNCHANGED <<otherVars, now, ticks, dmVars, postVars, runVars, schedVars>>

\* ------------------------------------------- MessageController.process_dms

\* add_dm(handle, message): get_conversation, append to dms, stamp
\* last_interaction, conv["metadata"]["total_interactions"] += 1, then
\* save_conversation.  A record without "metadata" raises KeyError at the
\* increment, after the append, and nothing is saved.
add_dm(mem, files, h, message, t, io) ==
    LET m1 == get_conversation(mem, h)
        r1 == [m1[h] EXCEPT !.dms = Append(@, message),
                            !.last_interaction = <<t>>,
                            !.keys = @ \cup {"last_interaction"}]
    IN  IF r1.has_metadata
        THEN LET m2 == [m1 EXCEPT ![h] =
                          [r1 EXCEPT !.total_interactions = @ + 1]]
             IN  [memory |-> m2, files |-> save_conversation(m2, files, h, io),
                  raised |-> FALSE]
        ELSE [memory |-> [m1 EXCEPT ![h] = r1], files |-> files,
              raised |-> TRUE]

\* The texts a message cell can show; "" is an empty entry.
Texts == {"", "a", "b"}

\* A cell of the open thread: whether it holds a messageEntry, the entry's
\* text, and whether the entry carries the class of our own messages.
Cells ==
    {[entry |-> FALSE, text |-> "", ours |-> FALSE]}
    \cup [entry : {TRUE}, text : Texts, ours : BOOLEAN]

\* get_current_conversation_details(): the cells in page order; a cell
\* without an entry, with an empty text or with a text already seen is
\* skipped; the others become messages with is_from_us from the class.
RECURSIVE ReadCells(_, _, _, _)
ReadCells(cells, i, seen, messages) ==
    IF i > Len(cells) THEN messages
    ELSE LET c == cells[i]
         IN  IF ~c.entry \/ c.text = "" \/ c.text \in seen
             THEN ReadCells(cells, i + 1, seen, messages)
             ELSE ReadCells(cells, i + 1, seen \cup {c.text},
                    Append(messages,
                           [text |-> c.text, is_from_us |-> c.ours]))

get_current_conversation_details(cells) == ReadCells(cells, 1, {}, <<>>)

\* Mutant: the check reads the first message instead of the last.
reply_needed_first(messages) ==
    messages # <<>> /\ ~messages[1].is_from_us

\* `if not messages: continue` and `if last_message.get("is_from_us", False):
\* continue`: the thread needs a reply when neither skip is taken.
reply_needed(messages) ==
    messages # <<>> /\ ~messages[Len(messages)].is_from_us

\* What generate() hands back to process_dms: nothing, success, the JSON
\* error naming the unlinked account, any other error.
DmGenResults == {"none", "success", "not_linked", "error"}

\* The outside world's answers while one thread is processed; an answer the
\* path does not ask for stays at its default.
NoDmAnswers ==
    [is_request |-> TRUE, is_safe |-> TRUE, gen |-> "success",
     engagement |-> TRUE, confirmation |-> TRUE, io |-> TRUE,
     sent |-> <<TRUE, TRUE>>]

DmAnswers ==
    {[NoDmAnswers EXCEPT !.is_request = FALSE],
     [NoDmAnswers EXCEPT !.is_safe = FALSE],
     [NoDmAnswers EXCEPT !.confirmation = FALSE],
     [NoDmAnswers EXCEPT !.gen = "not_linked", !.engagement = FALSE]}
    \cup {[NoDmAnswers EXCEPT !.gen = g, !.io = w] :
              g \in DmGenResults, w \in BOOLEAN}
    \* what the send_message calls of the path return, in call order
    \cup {[NoDmAnswers EXCEPT !.sent = <<a, b>>] : a \in BOOLEAN, b \in BOOLEAN}
    \cup {[NoDmAnswers EXCEPT !.is_safe = FALSE, !.sent = <<FALSE, TRUE>>],
          [NoDmAnswers EXCEPT !.gen = "not_linked", !.sent = <<FALSE, TRUE>>]}

NoDev == [kind |-> "none", handle |-> "", messages |-> <<>>,
          classified |-> FALSE, generated |-> FALSE, sends |-> 0,
          stored |-> 0, is_request |-> "", is_safe |-> "", results |-> <<>>]

\* Mutant: the reply is stored only when it was delivered.
stores_reply_if_sent(has_memory, sent_ok) == has_memory /\ sent_ok

\* `if self.memory:` before the add_dm calls: the return values of the
\* send_message calls are not looked at.
stores_reply(has_memory, sent_ok) == has_memory

\* The body of the loop over conversations for one handle, after the thread
\* was opened and read.  Returns the memory, the files and what was done.
DmBody(h, messages, in, mem, files, clock) ==
    LET base == [memory |-> mem, files |-> files,
                 ev |-> [NoDev EXCEPT !.handle = h, !.messages = messages]]
    IN  IF ~reply_needed(messages)
        THEN [base EXCEPT !.ev.kind =
                IF messages = <<>> THEN "no_messages" ELSE "last_from_us"]
        ELSE LET b0 == [base EXCEPT !.ev.classified = TRUE,
                                    !.ev.is_request = Answer(in.is_request)]
        IN  IF ~in.is_request
            THEN [b0 EXCEPT !.ev.kind = "not_request"]
        ELSE IF ~generation_allowed(in.is_request, in.is_safe)
            THEN [b0 EXCEPT !.ev.kind = "unsafe", !.ev.sends = 1,
                            !.ev.is_safe = Answer(in.is_safe),
                            !.ev.results = <<in.sent[1]>>]
        ELSE LET b1 == [b0 EXCEPT !.ev.generated = TRUE,
                                  !.ev.is_safe = Answer(in.is_safe)]
        IN  IF in.gen = "none"
            THEN [b1 EXCEPT !.ev.kind = "no_result"]
        ELSE IF in.gen = "error"
            THEN [b1 EXCEPT !.ev.kind = "generation_failed"]
        ELSE IF in.gen = "not_linked"
            THEN IF ~in.engagement
                 THEN [b1 EXCEPT !.ev.kind = "no_engagement"]
                 ELSE LET a == add_dm(mem, files, h,
                                 [kind |-> "engagement", from_us |-> TRUE,
                                  type |-> "dm"], clock, in.io)
                      IN  [b1 EXCEPT !.memory = a.memory, !.files = a.files,
                                     !.ev.kind = "engagement",
                                     !.ev.sends = 1, !.ev.stored = 1,
                                     !.ev.results = <<in.sent[1]>>]
        ELSE IF ~in.confirmation
            THEN [b1 EXCEPT !.ev.kind = "no_confirmation"]
        ELSE LET a1 == add_dm(mem, files, h,
                          [kind |-> "confirmation", from_us |-> TRUE,
                           type |-> "dm"], clock, in.io)
                 a2 == add_dm(a1.memory, a1.files, h,
                          [kind |-> "share_prompt", from_us |-> TRUE,
                           type |-> "dm"], clock, in.io)
                 b2 == [b1 EXCEPT !.ev.kind = "replied", !.ev.sends = 2,
                                  !.ev.results = in.sent]
             IN  IF ~stores_reply(TRUE, in.sent[1] /\ in.sent[2])
                 THEN b2
                 ELSE IF a1.raised
                 THEN [b2 EXCEPT !.memory = a1.memory, !.files = a1.files,
                                 !.ev.stored = 1]
                 ELSE [b2 EXCEPT !.memory = a2.memory, !.files = a2.files,
                                 !.ev.stored = 2]

\* All orders in which get_conversations() can map distinct handles.
HandleFeeds ==
    {f \in SeqsUpTo(Handles, Cardinality(Handles)) :
        \A i, j \in DOMAIN f : i # j => f[i] # f[j]}

\* process_dms up to the loop: the handle map of the messages page.  An
\* empty map returns at once.
DmsStart ==
    /\ dpc = "idle"
    /\ \E feed \in HandleFeeds :
          /\ dfeed' = feed
          /\ dpc' = IF feed = <<>> THEN "idle" ELSE "loop"
    /\ dev' = NoDev
    /\ UNCHANGED memVars

\* process_dms called on its own.
ProcessDmsStart ==
    /\ DmsStart
    /\ UNCHANGED <<otherVars, now, ticks, mentionVars, histVars, postVars,
                   runVars, schedVars>>

\* One iteration of the loop over conversations: open the thread, read its
\* cells, decide, answer.
DmIter ==
    /\ dpc = "loop"
    /\ dfeed # <<>>
    /\ LET h == Head(dfeed)
       IN  /\ h \in DOMAIN memory => Len(memory[h].dms) + 2 <= MaxDms
           /\ \E messages \in {get_current_conversation_details(cells) :
                                   cells \in SeqsUpTo(Cells, MaxCells)} :
                \E in \in IF reply_needed(messages) THEN DmAnswers
                          ELSE {NoDmAnswers} :
                   LET r == DmBody(h, messages, in, memory, conv_files, now)
                   IN  /\ memory' = r.memory
                       /\ conv_files' = r.files
                       /\ dev' = r.ev
    /\ dfeed' = Tail(dfeed)
    /\ dpc' = IF Tail(dfeed) = <<>> THEN "idle" ELSE "loop"
    /\ UNCHANGED <<replied_mentions, replied_file>>

\* An iteration of process_dms called on its own.
ProcessDm ==
    /\ DmIter
    /\ UNCHANGED <<otherVars, now, ticks, mentionVars, histVars, postVars,
                   runVars, schedVars>>

\* ------------------------------------------------------------- the clock

\* Time passes by d seconds while some task waits (a sleep, a page load, a
\* network call).
Tick(D) ==
    /\ ticks < MaxTicks
    /\ \E d \in D : now' = now + d
    /\ ticks' = ticks + 1
    /\ UNCHANGED <<otherVars, memVars, mentionVars, histVars, dmVars, postVars,
                   runVars, schedVars>>

\* Clock advances that meet the throttle window's cases: half a window, and
\* one second.
TickPost == Tick({1, 1800})

\* ----------------------------------------- PostController.post_creation

\* The throttle window of the two filters, in seconds.
ThrottleWindow == 3600
\* range(5): attempts per post_creation run.
MaxAttempts == 5

\* Mutant: the window is taken for a minute.
fresh_minute(timestamp, t) == (t - timestamp) < 60

\* `(current_time - timestamp).total_seconds() < 3600`: the entry is kept.
fresh(timestamp, t) == (t - timestamp) < ThrottleWindow

\* Mutant: nothing is pruned at the start of a run.
prune_used_urls_none(urls, t) == urls

\* The dict comprehension at the start of post_creation: entries of the last
\* hour are kept.
prune_used_urls(urls, t) ==
    LET keep == {l \in DOMAIN urls : fresh(urls[l], t)}
    IN  [l \in keep |-> urls[l]]

\* _save_used_urls(): the dict as a list of {"url", "timestamp"} posts; a
\* failed write is swallowed and leaves the file as it was.
save_used_urls(urls, file, io) ==
    IF io
    THEN LET order == SetToList(DOMAIN urls)
         IN  [exists |-> TRUE, corrupt |-> FALSE,
              posts |-> [i \in DOMAIN order |->
                           [url |-> order[i], timestamp |-> urls[order[i]]]]]
    ELSE file

\* _load_used_urls(): the posts of the file as a dict, filtered to the last
\* hour; a missing file or one that fails to parse gives the empty dict.
load_used_urls(file, t) ==
    IF ~file.exists \/ file.corrupt THEN <<>>
    ELSE LET urls == {file.posts[i].url : i \in DOMAIN file.posts}
             loaded == [l \in urls |->
                          LET i == CHOOSE j \in DOMAIN file.posts :
                                     /\ file.posts[j].url = l
                                     /\ \A k \in DOMAIN file.posts :
                                          file.posts[k].url = l => k <= j
                          IN  file.posts[i].timestamp]
             keep == {l \in urls : fresh(loaded[l], t)}
         IN  [l \in keep |-> loaded[l]]

\* What one attempt meets: whether fetch_random_creation returned a
\* creation, its link, whether it carries the required fields, what
\* is_trending_nsfw and generate_tweet answered (either may raise), whether
\* post_tweet succeeded and whether used_urls.json could be written.
NoPostAnswers ==
    [fetched |-> TRUE, link |-> "l1", fields |-> TRUE, nsfw |-> "true",
     text |-> "ok", post_ok |-> TRUE, io |-> TRUE]

PostAnswers ==
    {[NoPostAnswers EXCEPT !.fetched = FALSE]}
    \cup {[NoPostAnswers EXCEPT !.link = l, !.fields = f] :
              l \in Links, f \in BOOLEAN}
    \cup {[NoPostAnswers EXCEPT !.link = l, !.nsfw = n] :
              l \in Links, n \in {"false", "raise"}}
    \cup {[NoPostAnswers EXCEPT !.link = l, !.text = x] :
              l \in Links, x \in {"empty", "raise"}}
    \cup {[NoPostAnswers EXCEPT !.link = l, !.post_ok = o, !.io = w] :
              l \in Links, o \in BOOLEAN, w \in BOOLEAN}

NoPev == [kind |-> "none", link |-> "", checked |-> FALSE,
          rejected |-> FALSE, nsfw |-> "", posted |-> FALSE,
          outcome |-> "none", attempts |-> 0]

\* post_creation up to the loop: current_time is read once and the old
\* entries are dropped.
PostCreationBegin ==
    /\ ppc = "idle"
    /\ ppc' = "loop"
    /\ current_time' = now
    /\ used_before' = used_urls
    /\ used_urls' = prune_used_urls(used_urls, now)
    /\ attempt' = 0
    /\ pev' = [NoPev EXCEPT !.kind = "begin", !.outcome = "running"]
    /\ UNCHANGED used_file

\* One iteration of `for attempt in range(5)`; the run ends on a failed
\* fetch, on a successful post, on an error of an agent call, or after the
\* last attempt.
PostAttempt ==
    /\ ppc = "loop"
    /\ attempt < MaxAttempts
    /\ \E in \in PostAnswers :
          LET ev == [NoPev EXCEPT !.link = in.link, !.outcome = "running",
                                  !.attempts = attempt + 1]
              Continue(e) ==
                  /\ attempt' = attempt + 1
                  /\ ppc' = IF attempt + 1 < MaxAttempts THEN "loop" ELSE "idle"
                  /\ pev' = IF attempt + 1 < MaxAttempts THEN e
                            ELSE [e EXCEPT !.outcome = "returned"]
                  /\ UNCHANGED <<used_urls, used_file>>
              Leave(e, how) ==
                  /\ attempt' = attempt
                  /\ ppc' = "idle"
                  /\ pev' = [e EXCEPT !.outcome = how]
          IN  IF ~in.fetched
              THEN /\ Leave([ev EXCEPT !.kind = "fetch_failed", !.link = ""],
                            "returned")
                   /\ UNCHANGED <<used_urls, used_file>>
              ELSE LET e1 == [ev EXCEPT !.checked = TRUE]
              IN  IF in.link \in DOMAIN used_urls
                  THEN Continue([e1 EXCEPT !.kind = "too_recent",
                                           !.rejected = TRUE])
              ELSE IF ~in.fields
                  THEN Continue([e1 EXCEPT !.kind = "missing_fields"])
              ELSE LET e2 == [e1 EXCEPT !.nsfw = in.nsfw]
              IN  IF in.nsfw = "raise"
                  THEN /\ Leave([e2 EXCEPT !.kind = "agent_error"], "raised")
                       /\ UNCHANGED <<used_urls, used_file>>
              ELSE IF in.nsfw = "false"
                  THEN Continue([e2 EXCEPT !.kind = "skipped_by_check"])
              ELSE IF in.text = "raise"
                  THEN /\ Leave([e2 EXCEPT !.kind = "agent_error"], "raised")
                       /\ UNCHANGED <<used_urls, used_file>>
              ELSE IF in.text = "empty"
                  THEN Continue([e2 EXCEPT !.kind = "no_text"])
              ELSE IF ~in.post_ok
                  THEN Continue([e2 EXCEPT !.kind = "post_failed"])
              ELSE LET urls2 == [l \in DOMAIN used_urls \cup {in.link} |->
                                   IF l = in.link THEN current_time
                                   ELSE used_urls[l]]
                   IN  /\ Leave([e2 EXCEPT !.kind = "posted",
                                           !.posted = TRUE], "returned")
                       /\ used_urls' = urls2
                       /\ used_file' = save_used_urls(urls2, used_file, in.io)
    /\ UNCHANGED <<current_time, used_before>>

\* post_creation is called directly (the hourly task run on its own).
CallPostCreation ==
    /\ PostCreationBegin
    /\ UNCHANGED <<otherVars, now, ticks, memVars, mentionVars, histVars, dmVars,
                   runVars, schedVars>>

\* An attempt of the running post_creation.
PostCreationStep ==
    /\ PostAttempt
    /\ UNCHANGED <<otherVars, now, ticks, memVars, mentionVars, histVars, dmVars,
                   runVars, schedVars>>

\* The environment damages data/used_urls.json.
DamageUsedFile ==
    /\ used_file.exists
    /\ ~used_file.corrupt
    /\ used_file' = [used_file EXCEPT !.corrupt = TRUE]
    /\ UNCHANGED <<otherVars, now, ticks, memVars, mentionVars, histVars, dmVars,
                   used_urls, ppc, current_time, attempt, used_before, pev,
                   runVars, schedVars>>

\* save_all_conversations(): save_conversation for every handle in memory,
\* in dict order; each write may fail on its own.
RECURSIVE SaveAllFrom(_, _, _, _)
SaveAllFrom(mem, files, i, io) ==
    IF i > Len(GlobOrder) THEN files
    ELSE SaveAllFrom(mem, save_conversation(mem, files, GlobOrder[i], io[i]),
                     i + 1, io)

\* Mutant: the checkpoint writes nothing.
save_all_conversations_none(mem, files, io) == files

save_all_conversations(mem, files, io) == SaveAllFrom(mem, files, 1, io)

\* The checkpoint save MainController.run makes after process_mentions.
SaveAllConversations ==
    /\ mpc = "idle"
    /\ \E io \in [1..Len(GlobOrder) -> BOOLEAN] :
          conv_files' = save_all_conversations(memory, conv_files, io)
    /\ dpc = "idle"
    /\ UNCHANGED <<otherVars, now, ticks, memory, replied_mentions, replied_file,
                   mentionVars, histVars, dmVars, postVars,
                   runVars, schedVars>>

\* ------------------------------------- MainController.schedule_posts / run

\* self.post_interval, in seconds.
post_interval == 3600
\* asyncio.sleep(60) of schedule_posts.
SchedDelay == 60
\* asyncio.sleep(30) after an error in a processing cycle.
ErrorDelay == 30
\* asyncio.sleep(2) between the steps and asyncio.sleep(8) between cycles.
StepDelay == 2
CycleDelay == 8

NoRev == [kind |-> "none", step |-> ""]
NoSev == [kind |-> "none", elapsed |-> 0, outcome |-> "", fires |-> 0,
          prev_fire |-> <<>>]

\* The steps of a processing cycle and the sleeps that follow them.
CycleSteps == {"requests", "dms", "mentions"}
Cycling == CycleSteps \cup {"sleep_1", "sleep_2", "sleep_cycle", "error_sleep"}

\* Where run stands after a step that returned, and how long it sleeps.
after_step(step, t) ==
    IF step = "requests" THEN [pc |-> "sleep_1", wake |-> t + StepDelay]
    ELSE IF step = "dms" THEN [pc |-> "sleep_2", wake |-> t + StepDelay]
    ELSE [pc |-> "sleep_cycle", wake |-> t + CycleDelay]

\* Mutant: the sleep after message requests leads to process_mentions.
after_sleep_skip(pc) ==
    IF pc = "sleep_1" THEN "mentions"
    ELSE IF pc = "sleep_2" THEN "mentions"
    ELSE "requests"

\* Where run goes when a sleep ends.
after_sleep(pc) ==
    IF pc = "sleep_1" THEN "dms"
    ELSE IF pc = "sleep_2" THEN "mentions"
    ELSE "requests"

\* Mutant: an error in a cycle leaves the loop.
on_cycle_error_leave(t) == [pc |-> "finally", wake |-> t]

\* `except Exception` inside the while loop: log, sleep 30 s, continue.
on_cycle_error(t) == [pc |-> "error_sleep", wake |-> t + ErrorDelay]

\* The calls a cycle makes, in program order; the checkpoint
\* save_all_conversations follows process_mentions without a suspension.
CycleOrder == <<"requests", "dms", "mentions", "save">>

\* The calls of the current iteration of the while loop that have returned,
\* after the step at pc returned or raised; the first step opens a new
\* iteration.
steps_done(done, pc, raised) ==
    LET before == IF pc = "requests" THEN <<>> ELSE done
    IN  IF raised THEN before
        ELSE IF pc = "mentions" THEN before \o <<"mentions", "save">>
        ELSE Append(before, pc)

\* run up to the loop: running is set, ensure_logged_in answers; on success
\* the post scheduling task is created, otherwise run returns into its
\* finally block.
RunLogin ==
    /\ rpc = "start"
    /\ running' = TRUE
    /\ \E logged_in \in BOOLEAN :
          IF logged_in
          THEN /\ rpc' = "requests"
               /\ spc' = "check"
               /\ rev' = [NoRev EXCEPT !.kind = "logged_in"]
          ELSE /\ rpc' = "finally"
               /\ spc' = spc
               /\ rev' = [NoRev EXCEPT !.kind = "login_failed"]
    /\ UNCHANGED <<otherVars, now, ticks, memVars, mentionVars, histVars, dmVars, postVars,
                   rwake, cycle, last_post_time, s_current_time, swake, sev>>

\* One step of the cycle: process_message_requests, process_dms, or
\* process_mentions followed by save_all_conversations.  The step returns or
\* an error escapes it.
PollStep ==
    /\ rpc \in CycleSteps
    /\ running
    /\ \E raised \in BOOLEAN, io \in [1..Len(GlobOrder) -> BOOLEAN] :
          LET to == IF raised THEN on_cycle_error(now)
                    ELSE after_step(rpc, now)
          IN  /\ rpc' = to.pc
              /\ rwake' = to.wake
              /\ rev' = [kind |-> IF raised THEN "error" ELSE "step_done",
                         step |-> rpc]
              /\ cycle' = steps_done(cycle, rpc, raised)
              /\ conv_files' =
                    IF rpc = "mentions" /\ ~raised
                    THEN save_all_conversations(memory, conv_files, io)
                    ELSE conv_files
    /\ UNCHANGED <<otherVars, now, ticks, memory, replied_mentions, replied_file,
                   mentionVars, histVars, dmVars, postVars, running, schedVars>>

\* A sleep of run ends.
PollWake ==
    /\ rpc \in Cycling \ CycleSteps
    /\ now >= rwake
    /\ rpc' = IF running THEN after_sleep(rpc) ELSE "finally"
    /\ rev' = [kind |-> "woke", step |-> IF rpc = "error_sleep" THEN rev.step
                                        ELSE ""]
    /\ UNCHANGED <<otherVars, now, ticks, memVars, mentionVars, histVars, dmVars, postVars,
                   running, rwake, cycle, schedVars>>

\* The shutdown signal (KeyboardInterrupt, or the cancellation asyncio.run
\* turns it into) reaches run inside the loop.
Shutdown ==
    /\ rpc \in Cycling
    /\ rpc' = "finally"
    /\ rev' = [NoRev EXCEPT !.kind = "shutdown"]
    /\ UNCHANGED <<otherVars, now, ticks, memVars, mentionVars, histVars, dmVars, postVars,
                   running, rwake, cycle, schedVars>>

\* The finally block of run: post_task.cancel(), await post_task, cleanup().
\* When login failed post_task was never assigned and the first statement
\* raises UnboundLocalError, so cleanup() is not reached.
Finally ==
    /\ rpc = "finally"
    /\ IF spc = "not_started"
       THEN /\ rpc' = "crashed"
            /\ rev' = [NoRev EXCEPT !.kind = "unbound_post_task"]
            /\ UNCHANGED <<running, spc, ppc, pev, sev>>
       ELSE /\ rpc' = "stopped"
            /\ running' = FALSE
            /\ spc' = "cancelled"
            /\ ppc' = "idle"
            /\ pev' = IF ppc = "loop" THEN [pev EXCEPT !.outcome = "cancelled"]
                      ELSE pev
            /\ sev' = [sev EXCEPT !.kind = "cancelled"]
            /\ rev' = [NoRev EXCEPT !.kind = "cleanup"]
    /\ UNCHANGED <<otherVars, now, ticks, memVars, mentionVars, histVars, dmVars,
                   used_urls, used_file, current_time, attempt, used_before,
                   rwake, cycle, last_post_time, s_current_time, swake>>

\* `time_since_last_post >= self.post_interval`
due(t, last) == (t - last) >= post_interval

\* Whether `self.last_post_time = current_time` is reached after the await:
\* it is when post_creation returned, and is skipped when it raised.
reset_after(outcome) == outcome = "returned"

\* The top of the loop of schedule_posts: current_time is read and compared;
\* when the post is due post_creation starts, otherwise the task sleeps.
SchedCheck ==
    /\ spc = "check"
    /\ running
    /\ s_current_time' = now
    /\ IF due(now, last_post_time)
       THEN /\ PostCreationBegin
            /\ spc' = "firing"
            /\ swake' = swake
            /\ sev' = [kind |-> "fired", elapsed |-> now - last_post_time,
                       outcome |-> "", fires |-> sev.fires + 1,
                       prev_fire |-> IF sev.fires = 0 THEN <<>>
                                     ELSE <<s_current_time>>]
       ELSE /\ spc' = "sleeping"
            /\ swake' = now + SchedDelay
            /\ sev' = [sev EXCEPT !.kind = "not_due",
                                  !.elapsed = now - last_post_time]
            /\ UNCHANGED postVars
    /\ UNCHANGED <<otherVars, now, ticks, memVars, mentionVars, histVars, dmVars, runVars,
                   last_post_time>>

\* An attempt of the post_creation the task awaits.  When it ends the task
\* goes on without suspending: on a return last_post_time is set to the
\* current_time read before the call and the task sleeps; on an error the
\* except clause sleeps and the assignment is skipped.
SchedPostStep ==
    /\ spc = "firing"
    /\ PostAttempt
    /\ IF ppc' = "idle"
       THEN /\ last_post_time' =
                  IF reset_after(pev'.outcome)
                  THEN s_current_time ELSE last_post_time
            /\ spc' = "sleeping"
            /\ swake' = now + SchedDelay
            /\ sev' = [sev EXCEPT !.kind = "completed",
                                  !.outcome = pev'.outcome]
       ELSE UNCHANGED <<last_post_time, spc, swake, sev>>
    /\ UNCHANGED <<otherVars, now, ticks, memVars, mentionVars, histVars, dmVars, runVars,
                   s_current_time>>

\* The sleep of schedule_posts ends.
SchedWake ==
    /\ spc = "sleeping"
    /\ now >= swake
    /\ spc' = "check"
    /\ UNCHANGED <<otherVars, now, ticks, memVars, mentionVars, histVars, dmVars, postVars,
                   runVars, last_post_time, s_current_time, swake, sev>>

\* Clock advances that meet the scheduler's cases: longer than every sleep,
\* and half a posting interval.
TickSched == Tick({100, 1800})

\* ----------------------------- MainController.run with the flows it awaits

\* The end of the process_dms step: when the call has returned run sleeps
\* 2 s, otherwise it stays in the step.
DmsStepEnds ==
    IF dpc' = "idle"
    THEN LET to == after_step("dms", now)
         IN  /\ rpc' = to.pc
             /\ rwake' = to.wake
             /\ rev' = [kind |-> "step_done", step |-> "dms"]
             /\ cycle' = steps_done(cycle, "dms", FALSE)
    ELSE UNCHANGED <<rpc, rwake, rev, cycle>>

\* The end of the process_mentions step: when the call has returned run goes
\* on to save_all_conversations without suspending.
MentionsStepEnds ==
    IF mpc' = "idle"
    THEN /\ rpc' = "save"
         /\ rev' = [kind |-> "step_done", step |-> "mentions"]
         /\ cycle' = Append(cycle, "mentions")
         /\ rwake' = rwake
    ELSE UNCHANGED <<rpc, rwake, rev, cycle>>

\* run awaits process_message_requests, which does not use the memory.
CycleRequests ==
    /\ rpc = "requests"
    /\ PollStep

\* run awaits process_dms: the call starts.
CycleDmsStart ==
    /\ rpc = "dms"
    /\ running
    /\ DmsStart
    /\ DmsStepEnds
    /\ UNCHANGED <<otherVars, now, ticks, mentionVars, histVars, postVars,
                   running, schedVars>>

\* run awaits process_dms: an iteration of its loop.
CycleDmsIter ==
    /\ rpc = "dms"
    /\ DmIter
    /\ DmsStepEnds
    /\ UNCHANGED <<otherVars, now, ticks, mentionVars, histVars, postVars,
                   running, schedVars>>

\* run awaits process_mentions: the call starts.
CycleMentionsStart ==
    /\ rpc = "mentions"
    /\ running
    /\ MentionsStart
    /\ MentionsStepEnds
    /\ UNCHANGED <<otherVars, now, ticks, dmVars, postVars, running, schedVars>>

\* run awaits process_mentions: an iteration of its loop.
CycleMentionsIter ==
    /\ rpc = "mentions"
    /\ MentionIter
    /\ MentionsStepEnds
    /\ UNCHANGED <<otherVars, now, ticks, dmVars, postVars, running, schedVars>>

\* self.memory.save_all_conversations() after process_mentions returned,
\* then the sleep between cycles.
CycleSave ==
    /\ rpc = "save"
    /\ \E io \in [1..Len(GlobOrder) -> BOOLEAN] :
          /\ conv_files' = save_all_conversations(memory, conv_files, io)
          /\ rev' = [kind |-> IF \A i \in DOMAIN io : io[i] THEN "saved"
                              ELSE "save_failed",
                     step |-> "save"]
    /\ rpc' = "sleep_cycle"
    /\ rwake' = now + CycleDelay
    /\ cycle' = Append(cycle, "save")
    /\ UNCHANGED <<otherVars, now, ticks, memory, replied_mentions,
                   replied_file, mentionVars, histVars, dmVars, postVars,
                   running, schedVars>>

\* The time run spends in an asyncio.sleep: an advance longer than every
\* sleep of the loop.
TickCycle ==
    /\ rpc \in Cycling \ CycleSteps
    /\ now < rwake
    /\ Tick({100})

\* ------------------------------------------------- the shared browser session

\* The browser actions of PostController.post_tweet, of one thread of
\* process_dms and of one reply of process_mentions; an `await
\* asyncio.sleep` separates each from the next.
PostTweetSteps == <<"navigate_home", "compose", "type_text", "click_post">>
DmSteps == <<"navigate_messages", "open_thread", "read_thread", "send_message">>
MentionSteps ==
    <<"navigate_mentions", "click_reply", "type_reply", "click_post_reply">>

\* post and poll count the steps of the sequence in progress that are done
\* (0: no sequence in progress), flow is the step of run whose sequence is
\* in progress; page is the page the browser shows.
NoBrowser ==
    [post |-> 0, poll |-> 0, flow |-> "", page |-> "login",
     last |-> [by |-> "none", step |-> "", other_busy |-> FALSE,
               page_before |-> "login"]]

\* A loop is between the start and the end of its sequence.
in_sequence(n) == n > 0

\* The page after a browser action: navigate loads its URL, a click on a
\* conversation of the messages page opens the thread.
page_after(step, page) ==
    IF step = "navigate_home" THEN "home"
    ELSE IF step = "navigate_messages" THEN "messages"
    ELSE IF step = "navigate_mentions" THEN "mentions"
    ELSE IF step = "open_thread" /\ page = "messages" THEN "thread"
    ELSE page

\* The next browser action of a sequence, on the browser as it is: no lock
\* is taken and nothing is checked about the other loop.
browser_step(b, by, steps) ==
    LET n == b[by]
        step == steps[n + 1]
        other == IF by = "post" THEN b.poll ELSE b.post
    IN  [b EXCEPT ![by] = IF n + 1 = Len(steps) THEN 0 ELSE n + 1,
                  !.page = page_after(step, b.page),
                  !.last = [by |-> by, step |-> step,
                            other_busy |-> in_sequence(other),
                            page_before |-> b.page]]

\* The scheduler task, resumed inside post_tweet, performs its next browser
\* action and suspends again.
PostTweetBrowser ==
    /\ running
    /\ spc # "not_started"
    /\ browser' = browser_step(browser, "post", PostTweetSteps)
    /\ UNCHANGED <<now, ticks, memVars, mentionVars, histVars, dmVars, postVars,
                   runVars, schedVars, rop, tweets, tweet_file, cev>>

\* run, resumed inside process_dms, performs its next browser action and
\* suspends again.
ProcessDmsBrowser ==
    /\ running
    /\ rpc \in Cycling
    /\ browser.poll = 0 \/ browser.flow = "dms"
    /\ browser' = [browser_step(browser, "poll", DmSteps)
                      EXCEPT !.flow = "dms"]
    /\ UNCHANGED <<now, ticks, memVars, mentionVars, histVars, dmVars, postVars,
                   runVars, schedVars, rop, tweets, tweet_file, cev>>

\* The same inside process_mentions.
ProcessMentionsBrowser ==
    /\ running
    /\ rpc \in Cycling
    /\ browser.poll = 0 \/ browser.flow = "mentions"
    /\ browser' = [browser_step(browser, "poll", MentionSteps)
                      EXCEPT !.flow = "mentions"]
    /\ UNCHANGED <<now, ticks, memVars, mentionVars, histVars, dmVars, postVars,
                   runVars, schedVars, rop, tweets, tweet_file, cev>>

\* --------------------------------------------- ActionHandler.retry_operation

\* Largest custom_retry_count explored.
MaxRetries == 7
\* retry_attempts, the constructor's default.
DefaultRetryAttempts == 3
\* The cap of the backoff, in seconds.
BackoffCap == 30

Min(a, b) == IF a <= b THEN a ELSE b

NoRop == [pc |-> "idle", custom |-> 0, retry_attempts |-> 0, retries |-> 0,
          attempt |-> 0, outs |-> <<>>, waits |-> <<>>, result |-> "pending"]

\* `retries = custom_retry_count or self.retry_attempts`; None and 0 are both
\* false to `or` and are one value, 0, in the model.
retries_of(custom, retry_attempts) ==
    IF custom # 0 THEN custom ELSE retry_attempts

\* Mutant: the backoff is not capped.
backoff_uncapped(k) == 2 ^ k

\* `wait_time = min(2**attempt, 30)`
backoff(k) == Min(2 ^ k, BackoffCap)

\* Mutant: a False from the operation is retried like an error.
retry_step_on_false(r, out) ==
    LET r1 == [r EXCEPT !.outs = Append(@, out)]
    IN  IF out = "true"
        THEN [r1 EXCEPT !.pc = "done", !.result = out]
        ELSE IF r.attempt = r.retries - 1
        THEN [r1 EXCEPT !.pc = "done",
                        !.result = IF out = "raise" THEN "None" ELSE out]
        ELSE [r1 EXCEPT !.waits = Append(@, backoff(r.attempt)),
                        !.attempt = @ + 1]

\* One iteration of `for attempt in range(retries)`: the operation returned
\* out ("true" or "false") or raised; after a raise the last attempt returns
\* None and any other attempt sleeps the backoff and goes on.
retry_step(r, out) ==
    LET r1 == [r EXCEPT !.outs = Append(@, out)]
    IN  IF out # "raise"
        THEN [r1 EXCEPT !.pc = "done", !.result = out]
        ELSE IF r.attempt = r.retries - 1
        THEN [r1 EXCEPT !.pc = "done", !.result = "None"]
        ELSE [r1 EXCEPT !.waits = Append(@, backoff(r.attempt)),
                        !.attempt = @ + 1]

\* retry_operation is called; with no attempts to make the loop body never
\* runs and the call returns None.
RetryCall ==
    /\ rop.pc \in {"idle", "done"}
    /\ \E custom \in 0..MaxRetries, ra \in {0, DefaultRetryAttempts} :
          LET n == retries_of(custom, ra)
              r == [NoRop EXCEPT !.custom = custom, !.retry_attempts = ra,
                                 !.retries = n]
          IN  rop' = IF n = 0
                     THEN [r EXCEPT !.pc = "done", !.result = "None"]
                     ELSE [r EXCEPT !.pc = "attempt"]
    /\ UNCHANGED <<now, ticks, memVars, mentionVars, histVars, dmVars, postVars,
                   runVars, schedVars, browser, tweets, tweet_file, cev>>

\* An attempt of the running retry_operation.
RetryAttempt ==
    /\ rop.pc = "attempt"
    /\ \E out \in {"raise", "true", "false"} : rop' = retry_step(rop, out)
    /\ UNCHANGED <<now, ticks, memVars, mentionVars, histVars, dmVars, postVars,
                   runVars, schedVars, browser, tweets, tweet_file, cev>>

\* ------------------------------------------ run's login through the retries

\* run sets running and awaits ensure_logged_in, which hands
\* _ensure_logged_in_impl to retry_operation with the handler's
\* retry_attempts.
EnsureLoggedInCall ==
    /\ rpc = "start"
    /\ running' = TRUE
    /\ rpc' = "login"
    /\ rop' = [NoRop EXCEPT !.retry_attempts = DefaultRetryAttempts,
                            !.retries = retries_of(0, DefaultRetryAttempts),
                            !.pc = "attempt"]
    /\ UNCHANGED <<now, ticks, memVars, mentionVars, histVars, dmVars, postVars,
                   rwake, rev, cycle, schedVars, browser, tweets, tweet_file,
                   cev>>

\* One call of _ensure_logged_in_impl inside retry_operation: it returns
\* True or False or raises.  After a raise that is not the last the backoff
\* is slept.  When retry_operation has returned, run tests `if not await
\* self.action_handler.ensure_logged_in()`: on a true result the post
\* scheduling task is created and the loop starts, on False or None run
\* returns into its finally block.
EnsureLoggedInAttempt ==
    /\ rpc = "login"
    /\ rop.pc = "attempt"
    /\ \E out \in {"raise", "true", "false"} :
          LET r == retry_step(rop, out)
          IN  /\ rop' = r
              /\ now' = IF Len(r.waits) > Len(rop.waits)
                        THEN now + r.waits[Len(r.waits)] ELSE now
              /\ IF r.pc # "done"
                 THEN UNCHANGED <<rpc, spc, rev>>
                 ELSE IF r.result = "true"
                 THEN /\ rpc' = "requests"
                      /\ spc' = "check"
                      /\ rev' = [NoRev EXCEPT !.kind = "logged_in"]
                 ELSE /\ rpc' = "finally"
                      /\ spc' = spc
                      /\ rev' = [NoRev EXCEPT !.kind = "login_failed"]
    /\ UNCHANGED <<ticks, memVars, mentionVars, histVars, dmVars, postVars,
                   running, rwake, cycle, last_post_time, s_current_time,
                   swake, sev, browser, tweets, tweet_file, cev>>

\* ------------------------------------ ConversationMemory: the tweet history

NoCev == [op |-> "none", handle |-> "", raised |-> FALSE, io |-> TRUE,
          calls |-> 0]

\* The texts a tweet can carry.
TweetTexts == {"x", "y"}
\* `if len(self.tweets) > 10`
TweetCap == 10

\* Mutant: the oldest entries are kept.
keep_last_oldest(s, n) == IF Len(s) > n THEN SubSeq(s, 1, n) ELSE s

\* `self.tweets = self.tweets[-10:]` when the list is longer than the cap.
keep_last(s, n) == IF Len(s) > n THEN SubSeq(s, Len(s) - n + 1, Len(s)) ELSE s

\* load_tweets(): every text of the file's tweet_history becomes an entry
\* stamped with the file's last_tweet_time; a missing file gives the empty
\* list.
load_tweets(file) ==
    IF file.exists
    THEN [i \in 1..Len(file.history) |->
            [text |-> file.history[i], timestamp |-> file.last_time]]
    ELSE <<>>

\* save_tweets(): the existing file is read first, so without a file the
\* method's except ends it and nothing is written; otherwise tweet_history
\* and last_tweet_time are replaced.
save_tweets(tw, file) ==
    IF file.exists
    THEN [file EXCEPT !.history = [i \in 1..Len(tw) |-> tw[i].text],
                      !.last_time = IF tw # <<>> THEN tw[Len(tw)].timestamp
                                    ELSE @]
    ELSE file

\* add_message("tweets", message): append, cut to the last 10, save_tweets.
AddMessageTweets ==
    /\ \E text \in TweetTexts :
          LET message == [text |-> text, timestamp |-> <<now>>]
              tw == keep_last(Append(tweets, message), TweetCap)
          IN  /\ tweets' = tw
              /\ tweet_file' = save_tweets(tw, tweet_file)
              /\ cev' = [NoCev EXCEPT !.op = "add_message",
                                      !.handle = "tweets"]
    /\ UNCHANGED <<now, ticks, memVars, mentionVars, histVars, dmVars, postVars,
                   runVars, schedVars, browser, rop>>

\* TweetController._save_tweet_history writes data/tweet_history.json with
\* the history it loaded from that file (none when the file was missing).
SaveTweetHistory ==
    /\ tweet_file' = [tweet_file EXCEPT !.exists = TRUE]
    /\ tweet_file' # tweet_file
    /\ UNCHANGED <<now, ticks, memVars, mentionVars, histVars, dmVars, postVars,
                   runVars, schedVars, browser, rop, tweets, cev>>

\* ------------------------------------------ ConversationMemory: direct calls

\* Most direct calls of ConversationMemory methods explored in a row.
MaxCalls == 3

\* The messages and mentions the direct calls pass.
DmMessages ==
    {[kind |-> k, from_us |-> TRUE, type |-> "dm"] :
        k \in {"confirmation", "share_prompt"}}
MentionOf(h) ==
    [tweet_id |-> CHOOSE t \in TweetIds : AuthorOf(t) = h, is_from_us |-> FALSE]

\* The event a direct call leaves behind.
Called(op, h, raised, io) ==
    [op |-> op, handle |-> h, raised |-> raised, io |-> io,
     calls |-> cev.calls + 1]

\* Mutant: clearing a handle leaves a record without its mentions list.
cleared_record_bare ==
    [NewRecord EXCEPT !.keys = {"dms"}, !.has_metadata = FALSE]

\* The dict literal of clear_memory(handle): {"dms": [], "mentions": []}.
cleared_record ==
    [NewRecord EXCEPT !.keys = {"dms", "mentions"}, !.has_metadata = FALSE]

\* clear_memory(handle): a handle in memory gets the cleared record, which
\* is saved; replied_mentions is not touched.
clear_memory(mem, files, h, io) ==
    IF h \in DOMAIN mem
    THEN LET m1 == [mem EXCEPT ![h] = cleared_record]
         IN  [memory |-> m1, files |-> save_conversation(m1, files, h, io)]
    ELSE [memory |-> mem, files |-> files]

\* update_metadata(handle, key, value): conv["metadata"][key] = value, then
\* save_conversation; a record without "metadata" raises KeyError.  Of the
\* keys only total_interactions is part of the model's record.
update_metadata(mem, files, h, key, value, io) ==
    LET m1 == get_conversation(mem, h)
    IN  IF ~m1[h].has_metadata
        THEN [memory |-> m1, files |-> files, raised |-> TRUE]
        ELSE LET m2 == IF key = "total_interactions"
                       THEN [m1 EXCEPT ![h].total_interactions = value]
                       ELSE m1
             IN  [memory |-> m2, files |-> save_conversation(m2, files, h, io),
                  raised |-> FALSE]

\* add_message(handle, message) for a handle other than "tweets": a message
\* whose type is "dm" goes to add_dm, any other to add_mention.
add_message(mem, files, h, message, t, io) ==
    IF "type" \in DOMAIN message /\ message.type = "dm"
    THEN add_dm(mem, files, h, message, t, io)
    ELSE LET a == add_mention(get_conversation(mem, h), files, h, message, t,
                              io)
         IN  [memory |-> a.memory, files |-> a.files, raised |-> FALSE]

GetConversation ==
    /\ cev.calls < MaxCalls
    /\ \E h \in Handles :
          /\ memory' = get_conversation(memory, h)
          /\ cev' = Called("get_conversation", h, FALSE, TRUE)
    /\ UNCHANGED <<now, ticks, conv_files, replied_mentions, replied_file,
                   mentionVars, histVars, dmVars, postVars, runVars, schedVars, browser,
                   rop, tweets, tweet_file>>

AddDm ==
    /\ cev.calls < MaxCalls
    /\ \E h \in Handles, message \in DmMessages, io \in BOOLEAN :
          LET a == add_dm(memory, conv_files, h, message, now, io)
          IN  /\ h \in DOMAIN memory => Len(memory[h].dms) < MaxDms
              /\ memory' = a.memory
              /\ conv_files' = a.files
              /\ cev' = Called("add_dm", h, a.raised, io)
    /\ UNCHANGED <<now, ticks, replied_mentions, replied_file, mentionVars,
                   histVars, dmVars, postVars, runVars, schedVars, browser, rop, tweets,
                   tweet_file>>

AddMention ==
    /\ cev.calls < MaxCalls
    /\ \E h \in Handles, io \in BOOLEAN :
          LET a == add_mention(memory, conv_files, h, MentionOf(h), now, io)
          IN  /\ h \in DOMAIN memory => Len(memory[h].mentions) < MaxMentions
              /\ memory' = a.memory
              /\ conv_files' = a.files
              /\ cev' = Called("add_mention", h, FALSE, io)
    /\ UNCHANGED <<now, ticks, replied_mentions, replied_file, mentionVars,
                   histVars, dmVars, postVars, runVars, schedVars, browser, rop, tweets,
                   tweet_file>>

AddMessage ==
    /\ cev.calls < MaxCalls
    /\ \E h \in Handles, io \in BOOLEAN :
       \E message \in {MentionOf(h),
                       [kind |-> "confirmation", from_us |-> TRUE,
                        type |-> "dm"]} :
          LET a == add_message(memory, conv_files, h, message, now, io)
          IN  /\ h \in DOMAIN memory =>
                    /\ Len(memory[h].dms) < MaxDms
                    /\ Len(memory[h].mentions) < MaxMentions
              /\ memory' = a.memory
              /\ conv_files' = a.files
              /\ cev' = Called("add_message", h, a.raised, io)
    /\ UNCHANGED <<now, ticks, replied_mentions, replied_file, mentionVars,
                   histVars, dmVars, postVars, runVars, schedVars, browser, rop, tweets,
                   tweet_file>>

UpdateMetadata ==
    /\ cev.calls < MaxCalls
    /\ \E h \in Handles, key \in {"total_interactions", "first_seen"},
          io \in BOOLEAN :
          LET a == update_metadata(memory, conv_files, h, key, 0, io)
          IN  /\ memory' = a.memory
              /\ conv_files' = a.files
              /\ cev' = Called("update_metadata", h, a.raised, io)
    /\ UNCHANGED <<now, ticks, replied_mentions, replied_file, mentionVars,
                   histVars, dmVars, postVars, runVars, schedVars, browser, rop, tweets,
                   tweet_file>>

\* clear_memory(handle), and clear_memory() which empties the memory and
\* unlinks every file of data/conversations.
ClearMemory ==
    /\ cev.calls < MaxCalls
    /\ \/ \E h \in Handles, io \in BOOLEAN :
             LET a == clear_memory(memory, conv_files, h, io)
             IN  /\ memory' = a.memory
                 /\ conv_files' = a.files
                 /\ cev' = Called("clear_memory", h, FALSE, io)
       \/ /\ memory' = <<>>
          /\ conv_files' = <<>>
          /\ cev' = Called("clear_memory", "", FALSE, TRUE)
    /\ UNCHANGED <<now, ticks, replied_mentions, replied_file, mentionVars,
                   histVars, dmVars, postVars, runVars, schedVars, browser, rop, tweets,
                   tweet_file>>

\* add_tweet_reply(tweet_id) called directly.
AddTweetReply ==
    /\ cev.calls < MaxCalls
    /\ \E t \in TweetIds :
          LET a == add_tweet_reply(replied_mentions, t)
          IN  /\ replied_mentions' = a.replied
              /\ replied_file' = a.file
              /\ cev' = Called("add_tweet_reply", AuthorOf(t), FALSE, TRUE)
    /\ UNCHANGED <<now, ticks, memory, conv_files, mentionVars, histVars,
                   dmVars, postVars, runVars, schedVars, browser, rop, tweets,
                   tweet_file>>

\* The environment damages a file of data/conversations.
DamageConvFile ==
    /\ \E h \in DOMAIN conv_files :
          /\ ~conv_files[h].corrupt
          /\ conv_files' = [conv_files EXCEPT ![h].corrupt = TRUE]
    /\ UNCHANGED <<now, ticks, memory, replied_mentions, replied_file,
                   mentionVars, histVars, dmVars, postVars, runVars, schedVars,
                   otherVars>>

\* --------------------------------------------------------- process lifetime

\* The process ends and a new one starts: ConversationMemory.__init__ loads
\* the replied set and the conversations from disk.
Restart ==
    /\ restarts < MaxRestarts
    /\ restarts' = restarts + 1
    /\ replied_mentions' = load_replied_mentions(replied_file)
    /\ memory' = load_all_conversations(conv_files)
    /\ mpc' = "idle"
    /\ mfeed' = <<>>
    /\ generation_result' = NoGen
    /\ mev' = NoMev
    /\ lifeReplies' = [t \in TweetIds |-> 0]
    /\ lifeStored' = [t \in TweetIds |-> 0]
    /\ lifeFailed' = {}
    /\ lifeMarked' = {}
    /\ marked' = IF replied_file.corrupt THEN {} ELSE marked
    /\ dpc' = "idle"
    /\ dfeed' = <<>>
    /\ dev' = NoDev
    /\ used_urls' = load_used_urls(used_file, now)
    /\ ppc' = "idle"
    /\ current_time' = 0
    /\ attempt' = 0
    /\ used_before' = <<>>
    /\ pev' = [NoPev EXCEPT !.kind = "loaded"]
    /\ running' = FALSE
    /\ last_post_time' = now
    /\ rpc' = "start"
    /\ rwake' = 0
    /\ rev' = NoRev
    /\ cycle' = <<>>
    /\ spc' = "not_started"
    /\ s_current_time' = 0
    /\ swake' = 0
    /\ sev' = NoSev
    /\ rop' = NoRop
    /\ tweets' = load_tweets(tweet_file)
    /\ cev' = [NoCev EXCEPT !.calls = cev.calls]
    /\ browser' = NoBrowser
    /\ UNCHANGED <<now, ticks, conv_files, replied_file, used_file, tweet_file>>

\* The environment damages data/replied_mentions.json (truncated, edited).
DamageRepliedFile ==
    /\ replied_file.exists
    /\ ~replied_file.corrupt
    /\ replied_file' = [replied_file EXCEPT !.corrupt = TRUE]
    /\ UNCHANGED <<otherVars, now, ticks, memory, conv_files, replied_mentions,
                   mentionVars, marked, lifeMarked, restarts, dmVars, postVars,
                   runVars, schedVars>>

\* ------------------------------------------------------------------ Init

\* A fresh start: nothing under data/.
Init ==
    /\ now = 0
    /\ memory = <<>>
    /\ conv_files = <<>>
    /\ replied_mentions = {}
    /\ replied_file = [exists |-> FALSE, corrupt |-> FALSE, ids |-> <<>>]
    /\ mpc = "idle"
    /\ mfeed = <<>>
    /\ generation_result = NoGen
    /\ mev = NoMev
    /\ lifeReplies = [t \in TweetIds |-> 0]
    /\ lifeStored = [t \in TweetIds |-> 0]
    /\ marked = {}
    /\ lifeFailed = {}
    /\ lifeMarked = {}
    /\ restarts = 0
    /\ dpc = "idle"
    /\ dfeed = <<>>
    /\ dev = NoDev
    /\ ticks = 0
    /\ used_urls = <<>>
    /\ used_file = [exists |-> FALSE, corrupt |-> FALSE, posts |-> <<>>]
    /\ ppc = "idle"
    /\ current_time = 0
    /\ attempt = 0
    /\ used_before = <<>>
    /\ pev = NoPev
    /\ running = FALSE
    /\ last_post_time = 0
    /\ rpc = "start"
    /\ rwake = 0
    /\ rev = NoRev
    /\ cycle = <<>>
    /\ spc = "not_started"
    /\ s_current_time = 0
    /\ swake = 0
    /\ sev = NoSev
    /\ rop = NoRop
    /\ tweets = <<>>
    /\ tweet_file = [exists |-> FALSE, history |-> <<>>, last_time |-> <<>>]
    /\ cev = NoCev
    /\ browser = NoBrowser

\* The mention flow across process lifetimes.
NextMentions ==
    \/ ProcessMentionsStart
    \/ ProcessMention
    \/ SaveAllConversations
    \/ Restart
    \/ DamageRepliedFile

SpecMentions == Init /\ [][NextMentions]_vars

\* The DM flow across process lifetimes.
NextDms ==
    \/ ProcessDmsStart
    \/ ProcessDm
    \/ SaveAllConversations
    \/ Restart

SpecDms == Init /\ [][NextDms]_vars

\* The posting flow called on its own, across process lifetimes.
NextPost ==
    \/ CallPostCreation
    \/ PostCreationStep
    \/ TickPost
    \/ Restart
    \/ DamageUsedFile

SpecPost == Init /\ [][NextPost]_vars

\* The two loops of MainController.
NextSched ==
    \/ RunLogin
    \/ PollStep
    \/ PollWake
    \/ Shutdown
    \/ Finally
    \/ SchedCheck
    \/ SchedPostStep
    \/ SchedWake
    \/ TickSched

SpecSched == Init /\ [][NextSched]_vars

\* retry_operation called over and over.
NextRetry ==
    \/ RetryCall
    \/ RetryAttempt

SpecRetry == Init /\ [][NextRetry]_vars

\* The tweet history across process lifetimes.
NextTweets ==
    \/ AddMessageTweets
    \/ SaveTweetHistory
    \/ Restart

SpecTweets == Init /\ [][NextTweets]_vars

\* ConversationMemory called directly, across process lifetimes.
NextMemory ==
    \/ GetConversation
    \/ AddDm
    \/ AddMention
    \/ AddMessage
    \/ UpdateMetadata
    \/ ClearMemory
    \/ AddTweetReply
    \/ SaveAllConversations
    \/ DamageConvFile
    \/ Restart

SpecMemory == Init /\ [][NextMemory]_vars

\* The polling loop with the DM and mention flows it runs.
NextCycle ==
    \/ RunLogin
    \/ CycleRequests
    \/ CycleDmsStart
    \/ CycleDmsIter
    \/ CycleMentionsStart
    \/ CycleMentionsIter
    \/ CycleSave
    \/ PollWake
    \/ TickCycle

SpecCycle == Init /\ [][NextCycle]_vars

\* The two loops as users of the one browser session.
NextBrowser ==
    \/ RunLogin
    \/ PostTweetBrowser
    \/ ProcessDmsBrowser
    \/ ProcessMentionsBrowser

SpecBrowser == Init /\ [][NextBrowser]_vars

\* run from its start: the login through retry_operation, the polling loop,
\* the shutdown.
NextLogin ==
    \/ EnsureLoggedInCall
    \/ EnsureLoggedInAttempt
    \/ PollStep
    \/ PollWake
    \/ Shutdown
    \/ Finally
    \/ TickCycle

SpecLogin == Init /\ [][NextLogin]_vars

\* ------------------------------------------------------------------ claims

\* C1: process_mentions never calls reply_to_tweet for a tweet whose id is in
\* the replied set when the mention is examined; so within one process
\* lifetime each tweet id gets at most one successful reply and at most one
\* stored mention record, however often it reappears in the feed.
C1_NoReplyToRepliedTweet ==
    /\ mev.reply_called => ~mev.was_replied
    /\ \A t \in TweetIds : lifeReplies[t] <= 1 /\ lifeStored[t] <= 1

\* C1 witness: a tweet that was replied to in this process reappeared and was
\* skipped by the dedup check.
C1_Witness ==
    /\ mev.kind = "already_replied"
    /\ lifeReplies[mev.tweet] = 1
    /\ lifeStored[mev.tweet] = 1

\* C2: once add_tweet_reply(t) has returned, has_replied_to_tweet(t) is true
\* in every later state, also in a new ConversationMemory built after a
\* restart that loaded an intact replied_mentions.json.
C2_RepliedSurvivesRestart ==
    \A t \in marked \cup lifeMarked :
        has_replied_to_tweet(replied_mentions, t)

\* C2 witness: after a restart, an id marked in an earlier process lifetime
\* is still reported as replied.
C2_Witness ==
    /\ restarts >= 1
    /\ \E t \in marked \ lifeMarked :
          has_replied_to_tweet(replied_mentions, t)

\* C3: in process_mentions an id enters the replied set only in a step whose
\* reply_to_tweet reported success; a failed attempt leaves the id out, and a
\* mention whose id is not in the set is never skipped as already replied,
\* so it is examined again in a later cycle.
C3_MarkOnlyAfterSuccess ==
    [][(mpc = "loop" /\ mfeed # <<>> /\ mev'.tweet = Head(mfeed)
            /\ mfeed' = Tail(mfeed))
        => /\ replied_mentions' # replied_mentions
                => /\ mev'.reply_called /\ mev'.reply_ok
                   /\ replied_mentions' = replied_mentions \cup {mev'.tweet}
           /\ (mev'.reply_called /\ ~mev'.reply_ok)
                => mev'.tweet \notin replied_mentions'
           /\ (mev'.examined /\ ~mev'.was_replied)
                => mev'.kind # "already_replied"]_vars

\* C3 witness: a tweet whose reply attempt failed earlier in this process is
\* attempted again and this time the reply succeeds and the id is recorded.
C3_Witness ==
    /\ mev.reply_called /\ mev.reply_ok
    /\ mev.tweet \in lifeFailed
    /\ mev.tweet \in replied_mentions

\* C4: for every thread read in process_dms, the thread is classified (and
\* only then can anything be generated or sent) exactly when the message
\* sequence is non-empty and its last message has is_from_us = FALSE; an
\* empty sequence and one ending with our own message lead to no
\* classification, generation or sending.
C4_ReplyNeededIffLastFromThem ==
    dev.kind # "none" =>
        LET needed == /\ Len(dev.messages) > 0
                      /\ ~dev.messages[Len(dev.messages)].is_from_us
        IN  /\ dev.classified <=> needed
            /\ ~needed => (~dev.generated /\ dev.sends = 0 /\ dev.stored = 0)

\* C4 witness: a thread whose first message is theirs and whose last message
\* is ours was read and skipped.
C4_Witness ==
    /\ dev.kind = "last_from_us"
    /\ Len(dev.messages) = 2
    /\ ~dev.messages[1].is_from_us
    /\ dev.messages[2].is_from_us
    /\ ~dev.classified

\* The age post_creation computes for a link it checks: its current_time
\* minus the timestamp the run found recorded for the link.
AgeAtCheck == current_time - used_before[pev.link]

\* C5: a link recorded with timestamp T is rejected by a run at T + 1800 s
\* (it is not posted and the loop goes on to its next attempt, if one is
\* left) and is not rejected by a run at T + 3601 s.
C5_ThrottleWindow ==
    (pev.checked /\ pev.link \in DOMAIN used_before) =>
        /\ AgeAtCheck = 1800 =>
              /\ pev.rejected /\ ~pev.posted
              /\ attempt = pev.attempts
              /\ attempt < MaxAttempts => ppc = "loop"
        /\ AgeAtCheck = 3601 => ~pev.rejected

\* C5 witness: a link recorded 3601 s before the run is posted again.
C5_Witness ==
    /\ pev.posted
    /\ pev.link \in DOMAIN used_before
    /\ AgeAtCheck = 3601

\* C6: the throttle check holds a link eligible exactly when the link is
\* absent from UsedGenerationLinks or its timestamp is more than 3600 s in
\* the past, the age of exactly 3600 s included.
C6_EligibleIffOlderThanWindow ==
    pev.checked =>
        (~pev.rejected <=>
            \/ pev.link \notin DOMAIN used_before
            \/ AgeAtCheck > ThrottleWindow)

\* C7: right after _load_used_urls and right after the pruning step that
\* opens a post_creation run, no entry of UsedGenerationLinks is older than
\* 3600 s at the time of that load or check.
C7_PrunedAfterLoadAndCheck ==
    [][((ppc = "idle" /\ ppc' = "loop") \/ restarts' = restarts + 1)
        => \A l \in DOMAIN used_urls' :
              now' - used_urls'[l] <= ThrottleWindow]_vars

\* C7 witness: a run has just pruned one entry and kept another.
C7_Witness ==
    /\ pev.kind = "begin"
    /\ \E l \in DOMAIN used_before : l \notin DOMAIN used_urls
    /\ \E l \in DOMAIN used_before : l \in DOMAIN used_urls


\* C8: whenever schedule_posts finds the interval elapsed and calls
\* post_creation, last_post_time is reset when the call is over whichever way
\* it ended (posted, returned early, or raised), so two calls in a row are
\* never less than a full post_interval apart.
C8_ResetAfterEveryFiring ==
    /\ (sev.kind = "completed" => last_post_time = s_current_time)
    /\ (sev.kind \in {"fired", "completed"} /\ sev.prev_fire # <<>>
           => s_current_time - sev.prev_fire[1] >= 3600)

\* C9: a due-check made 3700 s after last_post_time is true and starts the
\* posting flow; the due-check evaluated again at the moment that firing has
\* completed is false.
C9_DueThenNotDue ==
    /\ (sev.kind = "not_due" => sev.elapsed # 3700)
    /\ (sev.kind = "completed" /\ sev.elapsed = 3700 /\ now = s_current_time
           => ~((now - last_post_time) >= 3600))

\* C10: an error escaping a step of a polling cycle does not end the loop:
\* run records it, stays running and sleeps 30 s; from that sleep it goes on
\* only to the first step (message requests), or out on a shutdown signal;
\* and the loop leaves its cycling states only on a shutdown signal.
C10_ErrorNeverEndsLoop ==
    [][ /\ (rev' # rev /\ rev'.kind = "error"
               => /\ rpc \in CycleSteps
                  /\ rpc' = "error_sleep"
                  /\ rwake' = now + 30
                  /\ running')
        /\ (rpc = "error_sleep" /\ rpc' # rpc
               => \/ rpc' = "requests" /\ now >= rwake
                  \/ rev'.kind = "shutdown")
        /\ (rpc \in Cycling /\ rpc' \notin Cycling
               => rev'.kind = "shutdown" /\ rpc' = "finally") ]_vars

\* C10 witness: a new cycle stands at message requests after the 30 s sleep
\* that followed an error escaping process_mentions.
C10_Witness ==
    /\ rpc = "requests"
    /\ running
    /\ rev = [kind |-> "woke", step |-> "mentions"]
    /\ now >= rwake
    /\ rwake >= 30


\* C11: the calls of a cycle return in the order process_message_requests,
\* process_dms, process_mentions, save_all_conversations, each at most once
\* per cycle; and a step of the next cycle starts only from the sleep that
\* follows the checkpoint save of a finished cycle, or from the error sleep
\* of a cycle an error ended.
C11_StepsInProgramOrder ==
    [][ /\ Len(cycle') <= Len(CycleOrder)
        /\ \A i \in DOMAIN cycle' :
              cycle'[i] = <<"requests", "dms", "mentions", "save">>[i]
        /\ (rpc \in Cycling /\ rpc # "requests" /\ rpc' = "requests")
               => \/ rpc = "sleep_cycle"
                     /\ cycle = <<"requests", "dms", "mentions", "save">>
                  \/ rpc = "error_sleep"
        /\ (rpc' = "dms" /\ rpc # "dms") => cycle = <<"requests">>
        /\ (rpc' = "mentions" /\ rpc # "mentions")
               => cycle = <<"requests", "dms">> ]_vars

\* C11 witness: a whole cycle has run, its checkpoint save has returned and
\* the loop stands at the first step of the next cycle.
C11_Witness ==
    /\ rpc = "requests"
    /\ running
    /\ cycle = <<"requests", "dms", "mentions", "save">>
    /\ rev.kind = "woke"

\* C12: when ensure_logged_in reports failure the scheduler task is never
\* started and no polling step runs, and run ends cleanly: it returns
\* without raising and cleanup() has set running to false.
C12_LoginFailureEndsCleanly ==
    /\ rev.kind = "login_failed"
          => spc = "not_started" /\ cycle = <<>> /\ rpc = "finally"
    /\ (spc = "not_started" /\ rpc \notin {"start", "finally"})
          => rpc = "stopped" /\ ~running /\ cycle = <<>>

\* C13: retry_operation calls the operation at most N times, N being
\* custom_retry_count or else retry_attempts; it goes on to another attempt
\* only after a raise and returns the result of the first attempt that does
\* not raise; the wait after the k-th failed attempt (k from 0) is
\* min(2^k, 30) s, with no wait after the last attempt; when all N attempts
\* raised it returns None.
C13_RetryWithCappedBackoff ==
    LET N == IF rop.custom # 0 THEN rop.custom ELSE rop.retry_attempts
        calls == Len(rop.outs)
    IN  /\ calls <= N
        /\ \A i \in 1..calls : i < calls => rop.outs[i] = "raise"
        /\ \A k \in 1..Len(rop.waits) :
              rop.waits[k] = IF 2 ^ (k - 1) < 30 THEN 2 ^ (k - 1) ELSE 30
        /\ rop.pc = "attempt" => calls < N /\ Len(rop.waits) = calls
        /\ (rop.pc = "done" /\ calls > 0) =>
              /\ Len(rop.waits) = calls - 1
              /\ IF rop.outs[calls] = "raise"
                 THEN rop.result = "None" /\ calls = N
                 ELSE rop.result = rop.outs[calls]
        /\ (rop.pc = "done" /\ calls = 0) => rop.result = "None" /\ N = 0

\* C13 witness: seven attempts all raised; the waits were 1, 2, 4, 8, 16 and
\* the capped 30 s, and the call returned None.
C13_Witness ==
    /\ rop.pc = "done"
    /\ rop.result = "None"
    /\ Len(rop.outs) = 7
    /\ rop.waits = <<1, 2, 4, 8, 16, 30>>

\* C19: after add_message("tweets", m) the history holds at most 10
\* entries: the entries it held before followed by m, less the oldest ones
\* beyond 10; an 11th tweet appended to 10 leaves the last 9 of them and m.
C19_TweetHistoryCapped ==
    [][(cev' # cev \/ tweets' # tweets) /\ cev'.op = "add_message"
          /\ cev'.handle = "tweets"
        => /\ Len(tweets') <= 10
           /\ Len(tweets') >= 1
           /\ Len(tweets') = IF Len(tweets) < 10 THEN Len(tweets) + 1 ELSE 10
           /\ tweets'[Len(tweets')].text \in TweetTexts
           /\ \A i \in 1..(Len(tweets') - 1) :
                 tweets'[i] = tweets[Len(tweets) - (Len(tweets') - 1) + i]
           /\ Len(tweets) = 10 =>
                 SubSeq(tweets', 1, 9) = SubSeq(tweets, 2, 10) ]_vars

\* C19 witness: the history holds 10 entries of which the oldest differs
\* from the second oldest, so dropping the oldest one can be told from
\* dropping any other.
C19_Witness ==
    /\ Len(tweets) = 10
    /\ cev.op = "add_message"
    /\ cev.handle = "tweets"
    /\ tweets[1].text # tweets[2].text
    /\ tweets[9].text # tweets[10].text

\* C14: add_dm(handle, message) appends the message as the last element of
\* the handle's dms, stamps last_interaction, raises
\* metadata.total_interactions by exactly 1 and writes that handle's file
\* (when the write itself succeeds); every other handle's record and file
\* stay as they were.
C14_AddDmFrame ==
    [][(cev'.calls = cev.calls + 1 /\ cev'.op = "add_dm") =>
          LET h == cev'.handle
              dms_before == IF h \in DOMAIN memory THEN memory[h].dms
                            ELSE <<>>
              total_before == IF h \in DOMAIN memory
                              THEN memory[h].total_interactions ELSE 0
          IN  /\ ~cev'.raised
              /\ h \in DOMAIN memory'
              /\ Len(memory'[h].dms) = Len(dms_before) + 1
              /\ SubSeq(memory'[h].dms, 1, Len(dms_before)) = dms_before
              /\ memory'[h].last_interaction = <<now>>
              /\ memory'[h].total_interactions = total_before + 1
              /\ cev'.io =>
                    /\ h \in DOMAIN conv_files'
                    /\ ~conv_files'[h].corrupt
                    /\ conv_files'[h].rec = memory'[h]
              /\ \A x \in Handles \ {h} :
                    /\ x \in DOMAIN memory' <=> x \in DOMAIN memory
                    /\ x \in DOMAIN memory => memory'[x] = memory[x]
                    /\ x \in DOMAIN conv_files' <=> x \in DOMAIN conv_files
                    /\ x \in DOMAIN conv_files =>
                          conv_files'[x] = conv_files[x] ]_vars

\* C15: add_mention(handle, mention) appends the mention to the handle's
\* mentions, stamps last_interaction, raises the handle's interaction
\* counter by exactly 1 and has written the handle's record, new mention
\* included, to its file when it returns (when the write itself succeeds).
C15_AddMentionCountsAndSaves ==
    [][(cev'.calls = cev.calls + 1 /\ cev'.op = "add_mention") =>
          LET h == cev'.handle
              mentions_before == IF h \in DOMAIN memory
                                 THEN memory[h].mentions ELSE <<>>
              count_before == IF h \in DOMAIN memory
                              THEN memory[h].total_interactions
                                   + memory[h].top_total
                              ELSE 0
          IN  /\ h \in DOMAIN memory'
              /\ Len(memory'[h].mentions) = Len(mentions_before) + 1
              /\ SubSeq(memory'[h].mentions, 1, Len(mentions_before))
                    = mentions_before
              /\ memory'[h].last_interaction = <<now>>
              /\ memory'[h].total_interactions + memory'[h].top_total
                    = count_before + 1
              /\ cev'.io =>
                    /\ h \in DOMAIN conv_files'
                    /\ ~conv_files'[h].corrupt
                    /\ conv_files'[h].rec = memory'[h] ]_vars

\* C16: get_conversation(handle) never fails; for a handle not in memory it
\* creates a record with empty dms, empty mentions, last_interaction None and
\* total_interactions 0; for a handle in memory it returns the record as it
\* is; no other handle's record changes.
C16_GetOrCreate ==
    [][(cev'.calls = cev.calls + 1 /\ cev'.op = "get_conversation") =>
          LET h == cev'.handle
          IN  /\ ~cev'.raised
              /\ h \in DOMAIN memory'
              /\ h \notin DOMAIN memory =>
                    /\ memory'[h].dms = <<>>
                    /\ memory'[h].mentions = <<>>
                    /\ memory'[h].last_interaction = <<>>
                    /\ memory'[h].has_metadata
                    /\ memory'[h].total_interactions = 0
              /\ h \in DOMAIN memory => memory'[h] = memory[h]
              /\ \A x \in Handles \ {h} :
                    /\ x \in DOMAIN memory' <=> x \in DOMAIN memory
                    /\ x \in DOMAIN memory => memory'[x] = memory[x] ]_vars

\* C16 witness: get_conversation has just returned a record that holds a DM
\* and a counter above 0, so a reset would show.
C16_Witness ==
    /\ cev.op = "get_conversation"
    /\ cev.handle \in DOMAIN memory
    /\ memory[cev.handle].dms # <<>>
    /\ memory[cev.handle].total_interactions > 0

\* C17: every record in memory has a dms list and a mentions list.
C17_BothSequencesPresent ==
    \A h \in DOMAIN memory : {"dms", "mentions"} \subseteq memory[h].keys

\* C17 witness: a record left by clear_memory(handle), without metadata, to
\* which a mention was added afterwards.
C17_Witness ==
    /\ cev.op \in {"add_mention", "add_message"}
    /\ cev.handle \in DOMAIN memory
    /\ ~memory[cev.handle].has_metadata
    /\ "metadata" \notin memory[cev.handle].keys
    /\ memory[cev.handle].mentions # <<>>

\* C18: at startup a malformed file affects only what it stores: a handle
\* whose conversation file is malformed has no record, every handle whose
\* file is intact has the file's record; a malformed replied_mentions.json
\* gives the empty set and a malformed used_urls.json the empty map.
C18_CorruptFileAffectsOnlyItself ==
    [][restarts' = restarts + 1 =>
          /\ \A h \in DOMAIN conv_files :
                IF conv_files[h].corrupt THEN h \notin DOMAIN memory'
                ELSE h \in DOMAIN memory' /\ memory'[h] = conv_files[h].rec
          /\ replied_file.corrupt => replied_mentions' = {}
          /\ used_file.corrupt => used_urls' = <<>> ]_vars

\* C20: a cycle that completes has called save_all_conversations exactly
\* once, as the last call of the cycle after process_mentions returned; and
\* when the writes of that call succeeded, every handle in memory has a file
\* whose record equals the record in memory, also a record whose add_mention
\* or add_dm skipped its own save.
C20_CheckpointAfterMentions ==
    /\ \A i \in DOMAIN cycle : cycle[i] = "save" => i = 4
    /\ rpc = "sleep_cycle" => cycle = <<"requests", "dms", "mentions", "save">>
    /\ (rpc = "sleep_cycle" /\ rev.kind = "saved") =>
          \A h \in DOMAIN memory :
              /\ h \in DOMAIN conv_files
              /\ ~conv_files[h].corrupt
              /\ conv_files[h].rec = memory[h]

\* C20 witness: the checkpoint of a cycle has returned and a record holds a
\* mention whose add_mention raised at the counter and skipped its save; the
\* record's file has the mention.
C20_Witness ==
    /\ rpc = "sleep_cycle"
    /\ rev.kind = "saved"
    /\ \E h \in DOMAIN memory :
          /\ memory[h].mentions # <<>>
          /\ memory[h].dms = <<>>
          /\ memory[h].total_interactions = 0
          /\ ~memory[h].has_top_total
          /\ h \in DOMAIN conv_files
          /\ conv_files[h].rec.mentions = memory[h].mentions

\* C21: within one process lifetime no step of a ConversationMemory
\* operation (add_tweet_reply, add_dm, add_mention, add_message,
\* update_metadata, save_all_conversations, clear_memory with or without a
\* handle) removes an id from the replied set.
C21_RepliedSetOnlyGrows ==
    [][restarts' = restarts => replied_mentions \subseteq replied_mentions']_vars

\* C21 witness: clear_memory() has emptied the memory and removed every
\* conversation file while the replied set holds two ids.
C21_Witness ==
    /\ cev.op = "clear_memory"
    /\ cev.handle = ""
    /\ memory = <<>>
    /\ replied_mentions = TweetIds

\* C22: while one loop is between the start and the end of a browser
\* sequence, the other loop performs no browser action.
C22_BrowserUsedByOneLoop ==
    [][ /\ in_sequence(browser.post) => browser'.poll = browser.poll
        /\ in_sequence(browser.poll) => browser'.post = browser.post ]_vars

\* C23: a run of post_creation makes at most 5 attempts, each with a newly
\* fetched candidate; an attempt whose candidate is rejected (link posted
\* within the window, required field missing, flagged by the safety check,
\* no tweet text, post failed) posts nothing and the loop goes on to the
\* next attempt, if one is left; a successful post ends the run, so a run
\* posts at most one tweet.
C23_AttemptsAndRejections ==
    [][(ppc = "loop" /\ pev'.attempts = attempt + 1) =>
          /\ pev'.attempts <= 5
          /\ (\/ pev'.kind \in {"too_recent", "missing_fields", "no_text",
                                "post_failed"}
              \/ pev'.nsfw = "true")
                => /\ ~pev'.posted
                   /\ attempt' = attempt + 1
                   /\ attempt' < 5 => ppc' = "loop"
          /\ pev'.posted => ppc' = "idle" ]_vars

\* C24: when post_creation posts a candidate, the timestamp recorded for its
\* link is the time at which the post succeeded, and used_urls.json holds
\* the updated map when the run returns (unless the write failed, which
\* leaves the file as it was).
C24_TimestampIsNow ==
    [][(ppc = "loop" /\ pev'.attempts = attempt + 1 /\ pev'.posted) =>
          /\ pev'.link \in DOMAIN used_urls'
          /\ used_urls'[pev'.link] = now
          /\ \/ used_file' = save_used_urls(used_urls', used_file, TRUE)
             \/ used_file' = used_file ]_vars

\* C25: post_tweet is invoked for a candidate only if is_trending_nsfw did
\* not return true for its link.
C25_NeverPostsFlagged ==
    pev.kind \in {"posted", "post_failed"} => pev.nsfw # "true"

\* C26: in the DM flow and in the mention flow create_api.generate is called
\* for a message only after is_generation_request and is_safe_prompt both
\* answered true for it; a message either check rejected does not reach it.
C26_GenerateOnlyAfterBothChecks ==
    /\ mev.generate_called => (mev.is_request = "true" /\ mev.is_safe = "true")
    /\ dev.generated => (dev.is_request = "true" /\ dev.is_safe = "true")
    /\ (mev.is_request = "false" \/ mev.is_safe = "false")
          => ~mev.generate_called
    /\ (dev.is_request = "false" \/ dev.is_safe = "false") => ~dev.generated

\* C26 witness: in one cycle a DM was rejected by the safety check without a
\* generation, and a mention passed both checks and was generated for.
C26_Witness ==
    /\ dev.kind = "unsafe"
    /\ dev.is_safe = "false"
    /\ ~dev.generated
    /\ mev.generate_called
    /\ mev.kind = "generated"

C29_StoredWhetherOrNotSent ==
    [][(dpc = "loop" /\ dfeed # <<>> /\ dfeed' = Tail(dfeed)
            /\ dev'.kind = "replied")
        => LET h == Head(dfeed)
               before == IF h \in DOMAIN memory THEN memory[h].dms ELSE <<>>
           IN  /\ dev'.sends = 2
               /\ Len(dev'.results) = 2
               /\ dev'.stored = 2
               /\ h \in DOMAIN memory'
               /\ Len(memory'[h].dms) = Len(before) + 2
               /\ SubSeq(memory'[h].dms, 1, Len(before)) = before
               /\ memory'[h].dms[Len(before) + 1].kind = "confirmation"
               /\ memory'[h].dms[Len(before) + 2].kind = "share_prompt" ]_vars

\* C29 witness: both send_message calls returned False and the two replies
\* are in the record.
C29_Witness ==
    /\ dev.kind = "replied"
    /\ dev.results = <<FALSE, FALSE>>
    /\ dev.handle \in DOMAIN memory
    /\ Len(memory[dev.handle].dms) = 2
    /\ memory[dev.handle].dms[1].kind = "confirmation"
    /\ memory[dev.handle].dms[2].kind = "share_prompt"

\* C28: retry_operation goes on to another attempt only after an attempt
\* that raised; when the first call of _ensure_logged_in_impl returns False,
\* ensure_logged_in has returned False after that one attempt, without any
\* backoff, and run has taken the login failure path: no scheduler task, no
\* polling step.
C28_FalseIsNotRetried ==
    /\ \A i \in 1..(Len(rop.outs) - 1) : rop.outs[i] = "raise"
    /\ (rop.outs # <<>> /\ rop.outs[1] = "false") =>
          /\ rop.pc = "done"
          /\ rop.result = "false"
          /\ Len(rop.outs) = 1
          /\ rop.waits = <<>>
          /\ now = 0
          /\ rpc \in {"finally", "crashed", "stopped"}
          /\ spc = "not_started"
          /\ cycle = <<>>

\* C28 witness: the first attempt returned False and run stands in its
\* finally block after the failed login.
C28_Witness ==
    /\ rop.outs = <<"false">>
    /\ rop.pc = "done"
    /\ rop.retries = 3
    /\ rev.kind = "login_failed"
    /\ rpc = "finally"

\* C30: conversation records round-trip through the store: when a new
\* ConversationMemory loads data/conversations and every file there is intact,
\* it holds, for every handle a file was saved for, a record equal to the one
\* that was saved, under that same handle, and no record under any other key.
C30_RecordsRoundTrip ==
    [][ ( /\ restarts' = restarts + 1
          /\ \A h \in DOMAIN conv_files : ~conv_files[h].corrupt )
        => /\ DOMAIN memory' = DOMAIN conv_files
           /\ \A h \in DOMAIN conv_files :
                 /\ file_stem(conv_files[h].name) = h
                 /\ memory'[h] = conv_files[h].rec ]_vars

\* C30 witness: a new instance has just loaded two intact files, one holding
\* a record with a stored message and a stamp, the other the record
\* clear_memory leaves (no last_interaction, no metadata).
C30_Witness ==
    /\ restarts = 1
    /\ cev.op = "none"
    /\ DOMAIN conv_files = Handles
    /\ DOMAIN memory = Handles
    /\ \A h \in Handles : ~conv_files[h].corrupt /\ memory[h] = conv_files[h].rec
    /\ \E h \in Handles :
          /\ memory[h].dms # <<>>
          /\ memory[h].last_interaction # <<>>
    /\ \E h \in Handles :
          /\ ~memory[h].has_metadata
          /\ memory[h].keys = {"dms", "mentions"}
====
